---- MODULE Spec2Model ----
(***************************************************************************)
(* StatsService (statsd/src/StatsService.cpp): the boot-completion gate,   *)
(* its delayed and cancellable completion handler, the log-reading thread  *)
(* with its shutdown handshake, the companion service and its death        *)
(* recipient, the alarm monitors, and the binder methods and shell         *)
(* commands with their admission checks.                                   *)
(*                                                                         *)
(* Binder threads, the main thread, the detached executor thread of the    *)
(* MultiConditionTrigger and the logs reader thread are interleaved at the *)
(* granularity of their accesses to shared state: a critical section under *)
(* one mutex is one step, an access to an atomic is one step.              *)
(***************************************************************************)
EXTENDS Naturals, Sequences, FiniteSets

\* ------------------------------------------------------------------ bounds
NumThreads == 2          \* binder/main threads calling into the service
MaxInitDelaySecs == 1    \* largest initEventDelaySecs given to the constructor
MaxEvents == 3           \* real log events the socket listener pushes
QueueLimit == 2          \* capacity of the LogEventQueue
MaxCompanions == 2       \* companion processes system_server starts
MaxConfigs == 2          \* configurations the engine holds
MaxAlarmSecs == 6        \* latest alarm time the engine asks for
MaxAlarmCalls == 3       \* setAlarm/cancelAlarm calls the engine makes

\* -------------------------------------------------------- program constants
AID_ROOT == 0
AID_SYSTEM == 1000
AID_SHELL == 2000
Sentinel == 0            \* the LogEvent(uid 0, pid 0) stopReadingLogs pushes
MIN_DIFF_TO_UPDATE_REGISTERED_ALARM_SECS == 5

kBootCompleteTag == "BOOT_COMPLETE"
kUidMapReceivedTag == "UID_MAP"
kAllPullersRegisteredTag == "PULLERS_REGISTERED"

Threads == 1..NumThreads
CallerUids == {AID_ROOT, AID_SYSTEM, AID_SHELL}
UidPayloads == {"unparsable", "uidData"}
NoContext == [kind |-> "none", caller |-> 0]
DedicatedThread == [kind |-> "dedicated", caller |-> 0]
CallerThread(t) == [kind |-> "caller", caller |-> t]

VARIABLES
    \* construction parameters
    mInitEventDelaySecs,   \* const int mInitEventDelaySecs
    hasEventQueue,         \* mEventQueue != nullptr
    \* MultiConditionTrigger mBootCompleteTrigger
    satisfied,             \* required tokens marked so far
    fired,                 \* the fired flag
    \* completion handler
    mStatsdInitCompletedHandlerTerminationRequested,
    initPc,                \* position of the thread running onStatsdInitCompleted
    initRunner,            \* execution context running onStatsdInitCompleted
    waitedSecs,            \* seconds spent in wait_for
    \* collaborators
    mUidMap,               \* content of the uid map
    lastDiskWrite,         \* reason of the last WriteDataToDisk
    \* calling threads
    thr,                   \* thr[t] = [pc, op, tok, st]: position, method, token, status
    destroyed,             \* ~StatsService has begun
    \* logs reader
    mIsStopRequested,
    queue,                 \* LogEventQueue content, front first
    readerPc,
    event,                 \* the event readLogs holds: <<>> or <<id>>
    mShellSubscriber,      \* "null" or "subscriber"
    nextEventId,           \* id of the next event the producer pushes
    \* observations
    marked,                \* [op, tok] of every markComplete that has run
    initStarted,           \* number of times the completion action was started
    processorInitCalls,    \* calls of mProcessor->onStatsdInitCompleted
    cancelEarly,           \* termination was requested before the delay elapsed
    shutdownRequested,     \* a shutdown path has set the termination flag
    pendingAtShutdown,     \* the callback was pending when shutdown was first requested
    notifiedAfterShutdown, \* the engine was notified with shutdownRequested set
    enqueued,              \* ids of the real events the queue accepted
    engineLog,             \* ids passed to mProcessor->OnLogEvent, in call order
    engineReturned,        \* number of mProcessor->OnLogEvent calls that returned
    engineDone,            \* ids whose mProcessor->OnLogEvent call has returned
    subscriberLog,         \* ids passed to mShellSubscriber->onLogEvent
    discarded,             \* ids popped and dropped by readLogs
    \* companion service and its death recipient
    hasProcessor,          \* mProcessor != nullptr
    companionLive,         \* what getStatsCompanionService returns: 0 or a reference
    companionsStarted,     \* companion processes started so far
    linked,                \* references linked to the death recipient
    deathPending,          \* dead references whose death notification is not yet delivered
    handle,                \* companion handle of "puller", "anomaly", "periodic"
    readyPc,               \* next statement of statsCompanionReady, 0 when not running
    readyRef,              \* its local statsCompanion
    readySt,               \* status of the last statsCompanionReady
    diedPc,                \* next statement of statsCompanionServiceDiedImpl, 0 when not running
    activeConfigsProto,    \* its local activeConfigsProto
    metadataList,          \* its local metadataList
    parsedActiveConfigs,   \* its local activeConfigs: <<>> or <<set>>
    \* processing engine
    activeConfigs,         \* ids of the active configurations
    metadataState,         \* metadata of the engine
    \* alarm monitors
    registered,            \* registered[r]: registered alarm time of monitor r, 0 for none
    changed,               \* changed[r]: noteRegistered<r>AlarmChanged count
    \* observations
    restarts,              \* noteSystemServerRestart count
    diedTrace,             \* statements the running or last recovery has executed
    snapshot,              \* engine state at the recovery's snapshots; the companion that died
    appliedFrom,           \* how the recovery re-applied each snapshot
    overlap,               \* overlap[k]: the running notification k has run beside the other
    lastNotif,             \* the last completed notifications, latest first
    updateCalls,           \* updateCalls[r]: invocations of monitor r's update callback
    companionCalls,        \* calls made on a companion reference
    alarmCalls,            \* setAlarm/cancelAlarm calls the engine made, setAlarm calls ignored
    lastCallback,          \* the last call of a monitor's callback
    \* requests: binder methods and shell commands
    mEngBuild,             \* bool mEngBuild
    mConfigs,              \* ConfigManager: keys of the configurations
    reports,               \* engine: [key, data] of every configuration with report data
    receivers,             \* ConfigManager: keys with a data fetch receiver
    pullers,               \* puller manager: uids with a registered pull callback
    subscriptions,         \* ShellSubscriber: callbacks with a subscription
    lastCall,              \* the last request: who called what, and what came of it
    \* lazily constructed ShellSubscriber
    mShellSubscriberMutex, \* the thread holding mShellSubscriberMutex, 0 when free
    shellInstances,        \* ShellSubscriber objects constructed so far
    usedSubscriber         \* usedSubscriber[t]: the instance thread t last subscribed on

bootVars == <<mInitEventDelaySecs, satisfied, fired,
              mStatsdInitCompletedHandlerTerminationRequested, initPc, initRunner,
              waitedSecs, mUidMap, lastDiskWrite, marked, initStarted,
              processorInitCalls, cancelEarly, shutdownRequested,
              pendingAtShutdown, notifiedAfterShutdown>>
logVars == <<hasEventQueue, mIsStopRequested, queue, readerPc, event,
             mShellSubscriber, nextEventId, enqueued, engineLog, engineReturned, engineDone,
             subscriberLog, discarded>>
companionVars == <<hasProcessor, companionLive, companionsStarted, linked, deathPending,
                   handle, readyPc, readyRef, readySt, diedPc, activeConfigsProto,
                   metadataList, parsedActiveConfigs, activeConfigs, metadataState,
                   registered, changed, restarts, diedTrace, snapshot, appliedFrom,
                   overlap, lastNotif, updateCalls, companionCalls, alarmCalls, lastCallback>>
subscriberVars == <<mShellSubscriberMutex, shellInstances, usedSubscriber>>
facadeVars == <<mEngBuild, mConfigs, reports, receivers, pullers, subscriptions, lastCall>>
vars == <<bootVars, logVars, companionVars, facadeVars, subscriberVars, thr, destroyed>>

Idle(st) == [pc |-> "idle", op |-> "", tok |-> "", st |-> st]
At(pc, op, tok) == [pc |-> pc, op |-> op, tok |-> tok, st |-> "running"]

\* ------------------------------------------------------------ construction
RequiredConditions_TwoOnly == {kBootCompleteTag, kUidMapReceivedTag}

\* The tokens the constructor gives mBootCompleteTrigger.
RequiredConditions == {kBootCompleteTag, kUidMapReceivedTag, kAllPullersRegisteredTag}

\* Nobody has called yet: the caller of no call has no label and no permission.
NoCall == [method |-> "none", caller |-> [uid |-> AID_ROOT, sid |-> <<>>, perms |-> {}],
           args |-> <<>>, declared |-> {}, status |-> "none", body |-> FALSE,
           keys |-> {}, actedFor |-> {}, dump |-> {}, callbacks |-> {}, config |-> "none",
           effect |-> "none", out |-> <<>>]

\* No configuration, receiver, pull callback or subscription exists.
InitRequests ==
    /\ mConfigs = {}
    /\ reports = {}
    /\ receivers = {}
    /\ pullers = {}
    /\ subscriptions = {}
    /\ lastCall = NoCall

InitCore ==
    /\ InitRequests
    /\ satisfied = {}
    /\ fired = FALSE
    /\ mStatsdInitCompletedHandlerTerminationRequested = FALSE
    /\ initPc = "none"
    /\ initRunner = NoContext
    /\ waitedSecs = 0
    /\ mUidMap = "empty"
    /\ lastDiskWrite = "none"
    /\ thr = [t \in Threads |-> Idle("none")]
    /\ destroyed = FALSE
    /\ mIsStopRequested = FALSE
    /\ queue = <<>>
    /\ event = <<>>
    /\ mShellSubscriber = "null"
    /\ mShellSubscriberMutex = 0
    /\ shellInstances = 0
    /\ usedSubscriber = [t \in Threads |-> 0]
    /\ nextEventId = 1
    /\ marked = {}
    /\ initStarted = 0
    /\ processorInitCalls = 0
    /\ cancelEarly = FALSE
    /\ shutdownRequested = FALSE
    /\ pendingAtShutdown = FALSE
    /\ notifiedAfterShutdown = FALSE
    /\ enqueued = {}
    /\ engineLog = <<>>
    /\ engineReturned = 0
    /\ engineDone = {}
    /\ subscriberLog = <<>>
    /\ discarded = {}

\* init_system_properties on a build that is neither eng nor userdebug.
InitCommon ==
    /\ InitCore
    /\ mEngBuild = FALSE

\* The holders of a companion handle and the two alarm monitors.
Holders == {"puller", "anomaly", "periodic"}
Monitors == {"anomaly", "periodic"}

\* No companion has announced itself, no alarm is registered; the engine has made
\* calls alarm calls: cancelAlarm with nothing registered.
InitMonitors(calls) ==
    /\ companionLive = 0
    /\ companionsStarted = 0
    /\ linked = {}
    /\ deathPending = {}
    /\ handle = [h \in Holders |-> 0]
    /\ readyPc = 0
    /\ readyRef = 0
    /\ readySt = "none"
    /\ diedPc = 0
    /\ activeConfigsProto = <<>>
    /\ metadataList = {}
    /\ parsedActiveConfigs = <<>>
    /\ registered = [r \in Monitors |-> 0]
    /\ changed = [r \in Monitors |-> 0]
    /\ restarts = 0
    /\ diedTrace = <<>>
    /\ snapshot = [active |-> {}, metadata |-> {}, dead |-> 0]
    /\ appliedFrom = [active |-> "none", metadata |-> "none"]
    /\ overlap = [ready |-> FALSE, died |-> FALSE]
    /\ lastNotif = <<>>
    /\ updateCalls = [r \in Monitors |-> 0]
    /\ companionCalls = 0
    /\ alarmCalls = [made |-> calls, ignored |-> 0]
    /\ lastCallback = [r |-> "none", sc |-> 0, forwarded |-> FALSE, recovering |-> FALSE]

InitNoCompanion == InitMonitors(0)

\* mProcessor as the constructor leaves it: an engine with no configuration.
InitProcessor ==
    /\ hasProcessor = TRUE
    /\ activeConfigs = {}
    /\ metadataState = {}

\* The service as the unit tests build it: no event queue, any init delay.
InitBoot ==
    /\ InitCommon
    /\ InitNoCompanion
    /\ InitProcessor
    /\ mInitEventDelaySecs \in 0..MaxInitDelaySecs
    /\ hasEventQueue = FALSE
    /\ readerPc = "none"

\* The daemon: an event queue, the logs reader thread started by the constructor.
InitLogs ==
    /\ InitCommon
    /\ InitNoCompanion
    /\ InitProcessor
    /\ mInitEventDelaySecs = MaxInitDelaySecs
    /\ hasEventQueue = TRUE
    /\ readerPc = "waitPop"

\* ------------------------------------------------------------ admission
\* A check of the calling uid that every uid passes.
checkUid_Unchecked(uid, expectedUid) == TRUE

checkUid(uid, expectedUid) == uid = expectedUid \/ uid = AID_ROOT

Callable(t) == thr[t].pc = "idle" /\ ~destroyed

Reject(t, st) == thr' = [thr EXCEPT ![t] = Idle(st)]

\* ------------------------------------------------- MultiConditionTrigger
CallbackContext_OnCaller(t) == CallerThread(t)

\* The execution context the completion callback is scheduled on.
CallbackContext(t) == DedicatedThread

\* markComplete counting calls instead of keeping the set of satisfied tokens.
markComplete_Counting(t) ==
    /\ thr[t].pc = "markComplete"
    /\ marked' = marked \cup {[op |-> thr[t].op, tok |-> thr[t].tok]}
    /\ IF fired
       THEN /\ UNCHANGED <<satisfied, fired>>
            /\ thr' = [thr EXCEPT ![t] = Idle("ok")]
       ELSE /\ satisfied' = satisfied \cup {thr[t].tok}
            /\ fired' = (Cardinality(satisfied') = Cardinality(RequiredConditions))
            /\ thr' = [thr EXCEPT ![t] = IF fired' THEN At("trigger", thr[t].op, thr[t].tok)
                                                   ELSE Idle("ok")]
    /\ UNCHANGED <<mInitEventDelaySecs, mStatsdInitCompletedHandlerTerminationRequested,
                   initPc, initRunner, waitedSecs, mUidMap, lastDiskWrite, initStarted,
                   processorInitCalls, cancelEarly, shutdownRequested,
                   pendingAtShutdown, notifiedAfterShutdown, logVars, companionVars, facadeVars, subscriberVars, destroyed>>

\* markComplete, the part under the trigger's lock.
markComplete(t) ==
    /\ thr[t].pc = "markComplete"
    /\ marked' = marked \cup {[op |-> thr[t].op, tok |-> thr[t].tok]}
    /\ IF fired
       THEN /\ UNCHANGED <<satisfied, fired>>
            /\ thr' = [thr EXCEPT ![t] = Idle("ok")]
       ELSE /\ satisfied' = satisfied \cup ({thr[t].tok} \cap RequiredConditions)
            /\ fired' = (satisfied' = RequiredConditions)
            /\ thr' = [thr EXCEPT ![t] = IF fired' THEN At("trigger", thr[t].op, thr[t].tok)
                                                   ELSE Idle("ok")]
    /\ UNCHANGED <<mInitEventDelaySecs, mStatsdInitCompletedHandlerTerminationRequested,
                   initPc, initRunner, waitedSecs, mUidMap, lastDiskWrite, initStarted,
                   processorInitCalls, cancelEarly, shutdownRequested,
                   pendingAtShutdown, notifiedAfterShutdown, logVars, companionVars, facadeVars, subscriberVars, destroyed>>

\* markComplete, after the lock: the callback is handed to its execution context.
scheduleTrigger(t) ==
    /\ thr[t].pc = "trigger"
    /\ initStarted' = initStarted + 1
    /\ initRunner' = CallbackContext(t)
    /\ initPc' = "start"
    /\ thr' = [thr EXCEPT ![t] = IF CallbackContext(t) = CallerThread(t)
                                 THEN At("inCallback", thr[t].op, thr[t].tok)
                                 ELSE Idle("ok")]
    /\ UNCHANGED <<mInitEventDelaySecs, satisfied, fired,
                   mStatsdInitCompletedHandlerTerminationRequested, waitedSecs, mUidMap,
                   lastDiskWrite, marked, processorInitCalls, cancelEarly,
                   shutdownRequested, pendingAtShutdown, notifiedAfterShutdown,
                   logVars, companionVars, facadeVars, subscriberVars, destroyed>>

\* ------------------------------------------------------------ RPC methods
Marking(op, tok) == At("markComplete", op, tok)

\* A direct client of the trigger (its unit tests): markComplete of any name.
ClientTokens == RequiredConditions \cup {"UNKNOWN_TAG"}

markCompleteByClient(t, tok) ==
    /\ Callable(t)
    /\ thr' = [thr EXCEPT ![t] = Marking("client", tok)]
    /\ UNCHANGED <<bootVars, logVars, companionVars, facadeVars, subscriberVars, destroyed>>

bootCompletedTag_WrongTag == kUidMapReceivedTag

\* The token bootCompleted marks.
bootCompletedTag == kBootCompleteTag
informAllUidDataTag == kUidMapReceivedTag
allPullersFromBootRegisteredTag == kAllPullersRegisteredTag

bootCompleted(t, uid) ==
    /\ Callable(t)
    /\ IF checkUid(uid, AID_SYSTEM)
       THEN thr' = [thr EXCEPT ![t] = Marking("bootCompleted", bootCompletedTag)]
       ELSE Reject(t, "EX_SECURITY")
    /\ UNCHANGED <<bootVars, logVars, companionVars, facadeVars, subscriberVars, destroyed>>

allPullersFromBootRegistered(t, uid) ==
    /\ Callable(t)
    /\ IF checkUid(uid, AID_SYSTEM)
       THEN thr' = [thr EXCEPT ![t] = Marking("allPullersFromBootRegistered",
                                              allPullersFromBootRegisteredTag)]
       ELSE Reject(t, "EX_SECURITY")
    /\ UNCHANGED <<bootVars, logVars, companionVars, facadeVars, subscriberVars, destroyed>>

\* UidData::ParseFromFileDescriptor: whether the stream decodes as a UidData.
ParseFromFileDescriptor(payload) == payload = "uidData"

\* A method that goes on to update the map whatever the parse returned.
RefusesUidData_Never(parsed) == FALSE

\* if (!uidData.ParseFromFileDescriptor(fd.get())) return exception(...)
RefusesUidData(parsed) == ~parsed

informAllUidData(t, uid, payload) ==
    /\ Callable(t)
    /\ IF ~checkUid(uid, AID_SYSTEM)
       THEN Reject(t, "EX_SECURITY") /\ UNCHANGED mUidMap
       ELSE IF RefusesUidData(ParseFromFileDescriptor(payload))
       THEN Reject(t, "EX_ILLEGAL_ARGUMENT") /\ UNCHANGED mUidMap
       ELSE /\ mUidMap' = payload
            /\ thr' = [thr EXCEPT ![t] = Marking("informAllUidData", informAllUidDataTag)]
    /\ UNCHANGED <<mInitEventDelaySecs, satisfied, fired,
                   mStatsdInitCompletedHandlerTerminationRequested, initPc, initRunner,
                   waitedSecs, lastDiskWrite, marked, initStarted,
                   processorInitCalls, cancelEarly, shutdownRequested,
                   pendingAtShutdown, notifiedAfterShutdown, logVars, companionVars, facadeVars, subscriberVars, destroyed>>

\* ------------------------------------------- cancellation of the handler
\* The delay of wait_for has run out.
DelayElapsed == initPc \notin {"none", "start"} /\ waitedSecs = mInitEventDelaySecs

CallbackPending == initPc \in {"start", "waiting", "expired"}

\* A termination request that raises the flag for a shutdown only and lowers it
\* when the companion dies.
setTerminationRequested_ShutdownOnly(shutdown) ==
    /\ mStatsdInitCompletedHandlerTerminationRequested' = shutdown
    /\ cancelEarly' = (cancelEarly \/ ~DelayElapsed)
    /\ shutdownRequested' = (shutdownRequested \/ shutdown)
    /\ pendingAtShutdown' = IF shutdown /\ ~shutdownRequested THEN CallbackPending
                                                              ELSE pendingAtShutdown

\* onStatsdInitCompletedHandlerTermination, the part under the mutex.
setTerminationRequested(shutdown) ==
    /\ mStatsdInitCompletedHandlerTerminationRequested' = TRUE
    /\ cancelEarly' = (cancelEarly \/ ~DelayElapsed)
    /\ shutdownRequested' = (shutdownRequested \/ shutdown)
    /\ pendingAtShutdown' = IF shutdown /\ ~shutdownRequested THEN CallbackPending
                                                              ELSE pendingAtShutdown

informDeviceShutdown(t, uid) ==
    /\ Callable(t)
    /\ IF checkUid(uid, AID_SYSTEM)
       THEN /\ setTerminationRequested(TRUE)
            /\ thr' = [thr EXCEPT ![t] = At("notify_all", "informDeviceShutdown", "")]
       ELSE /\ Reject(t, "EX_SECURITY")
            /\ UNCHANGED <<mStatsdInitCompletedHandlerTerminationRequested, cancelEarly,
                           shutdownRequested, pendingAtShutdown>>
    /\ UNCHANGED <<mInitEventDelaySecs, satisfied, fired, initPc, initRunner, waitedSecs,
                   mUidMap, lastDiskWrite, marked, initStarted, processorInitCalls,
                   notifiedAfterShutdown, logVars, companionVars, facadeVars, subscriberVars, destroyed>>

Terminate(t) ==
    /\ Callable(t)
    /\ setTerminationRequested(TRUE)
    /\ thr' = [thr EXCEPT ![t] = At("notify_all", "Terminate", "")]
    /\ UNCHANGED <<mInitEventDelaySecs, satisfied, fired, initPc, initRunner, waitedSecs,
                   mUidMap, lastDiskWrite, marked, initStarted, processorInitCalls,
                   notifiedAfterShutdown, logVars, companionVars, facadeVars, subscriberVars, destroyed>>

\* ~StatsService: runs once, when no other call is in progress.
Destructor(t) ==
    /\ Callable(t)
    /\ \A u \in Threads : thr[u].pc = "idle"
    /\ destroyed' = TRUE
    /\ setTerminationRequested(TRUE)
    /\ thr' = [thr EXCEPT ![t] = At("notify_all", "~StatsService", "")]
    /\ UNCHANGED <<mInitEventDelaySecs, satisfied, fired, initPc, initRunner, waitedSecs,
                   mUidMap, lastDiskWrite, marked, initStarted, processorInitCalls,
                   notifiedAfterShutdown, logVars, companionVars, facadeVars, subscriberVars>>

\* notify_all, and what the caller does after onStatsdInitCompletedHandlerTermination
\* up to its next access to the event queue.
AfterTermination(t) ==
    CASE thr[t].op = "informDeviceShutdown" ->
             /\ lastDiskWrite' = "DEVICE_SHUTDOWN"
             /\ thr' = [thr EXCEPT ![t] = Idle("ok")]
      [] thr[t].op = "Terminate" ->
             /\ lastDiskWrite' = "TERMINATION_SIGNAL_RECEIVED"
             /\ thr' = [thr EXCEPT ![t] = Idle("ok")]
      [] OTHER ->
             /\ UNCHANGED lastDiskWrite
             /\ thr' = [thr EXCEPT ![t] = IF hasEventQueue
                                          THEN At("stopReadingLogs", thr[t].op, "")
                                          ELSE Idle("ok")]

notifyAll(t) ==
    /\ thr[t].pc = "notify_all"
    /\ AfterTermination(t)
    /\ UNCHANGED <<mInitEventDelaySecs, satisfied, fired,
                   mStatsdInitCompletedHandlerTerminationRequested, initPc, initRunner,
                   waitedSecs, mUidMap, marked, initStarted, processorInitCalls,
                   cancelEarly, shutdownRequested, pendingAtShutdown,
                   notifiedAfterShutdown, logVars, companionVars, facadeVars, subscriberVars, destroyed>>

\* ---------------------------------------------------- onStatsdInitCompleted
TerminationPredicate_StaleFlag == FALSE

\* The predicate wait_for evaluates under the mutex.
TerminationPredicate == mStatsdInitCompletedHandlerTerminationRequested

\* The callback returns: a caller that ran it itself resumes.
CallbackReturns ==
    thr' = IF initRunner.kind = "caller"
           THEN [thr EXCEPT ![initRunner.caller] = Idle("ok")]
           ELSE thr

initUnchanged == <<mInitEventDelaySecs, satisfied, fired,
                   mStatsdInitCompletedHandlerTerminationRequested, initRunner, mUidMap,
                   lastDiskWrite, marked, initStarted, cancelEarly,
                   shutdownRequested, pendingAtShutdown, logVars, companionVars, facadeVars, subscriberVars, destroyed>>

\* Entry: with a positive delay, lock and test the predicate before waiting.
onStatsdInitCompletedBegin ==
    /\ initPc = "start"
    /\ IF mInitEventDelaySecs > 0
       THEN IF TerminationPredicate
            THEN initPc' = "skipped" /\ CallbackReturns
            ELSE initPc' = "waiting" /\ UNCHANGED thr
       ELSE initPc' = "expired" /\ UNCHANGED thr
    /\ waitedSecs' = 0
    /\ UNCHANGED <<initUnchanged, processorInitCalls, notifiedAfterShutdown>>

\* One second passes while the handler waits.
waitOneSecond ==
    /\ initPc = "waiting"
    /\ waitedSecs < mInitEventDelaySecs
    /\ waitedSecs' = waitedSecs + 1
    /\ UNCHANGED <<initUnchanged, initPc, thr, processorInitCalls, notifiedAfterShutdown>>

\* A wake-up before the timeout (notify_all or spurious): the predicate decides.
waitWakeUp ==
    /\ initPc = "waiting"
    /\ TerminationPredicate
    /\ initPc' = "skipped"
    /\ CallbackReturns
    /\ UNCHANGED <<initUnchanged, waitedSecs, processorInitCalls, notifiedAfterShutdown>>

\* The timeout: wait_for returns the predicate's value, the lock is dropped.
waitTimeout ==
    /\ initPc = "waiting"
    /\ waitedSecs = mInitEventDelaySecs
    /\ IF TerminationPredicate
       THEN initPc' = "skipped" /\ CallbackReturns
       ELSE initPc' = "expired" /\ UNCHANGED thr
    /\ UNCHANGED <<initUnchanged, waitedSecs, processorInitCalls, notifiedAfterShutdown>>

\* mProcessor->onStatsdInitCompleted
notifyProcessor ==
    /\ initPc = "expired"
    /\ initPc' = "done"
    /\ processorInitCalls' = processorInitCalls + 1
    /\ notifiedAfterShutdown' = (notifiedAfterShutdown \/ shutdownRequested)
    /\ CallbackReturns
    /\ UNCHANGED <<initUnchanged, waitedSecs>>

\* ---------------------------------------------------------- LogEventQueue
\* push: the event is appended unless the queue is full; the caller never waits.
QueuePush(q, e) == IF Len(q) < QueueLimit THEN Append(q, e) ELSE q

\* The socket listener pushes the next real event.
pushEvent ==
    /\ nextEventId <= MaxEvents
    /\ queue' = QueuePush(queue, nextEventId)
    /\ enqueued' = IF Len(queue) < QueueLimit THEN enqueued \cup {nextEventId} ELSE enqueued
    /\ nextEventId' = nextEventId + 1
    /\ UNCHANGED <<bootVars, companionVars, facadeVars, subscriberVars, thr, destroyed, hasEventQueue, mIsStopRequested, readerPc,
                   event, mShellSubscriber, engineLog, engineReturned, engineDone, subscriberLog,
                   discarded>>

\* ------------------------------------------------------------ readLogs
readerUnchanged == <<bootVars, companionVars, facadeVars, subscriberVars, thr, destroyed, hasEventQueue, mIsStopRequested,
                     mShellSubscriber, nextEventId, enqueued>>

\* waitPop: blocks while the queue is empty, then takes the front event.
waitPop ==
    /\ readerPc = "waitPop"
    /\ queue # <<>>
    /\ event' = <<Head(queue)>>
    /\ queue' = Tail(queue)
    /\ readerPc' = "checkStop"
    /\ UNCHANGED <<readerUnchanged, engineLog, engineReturned, engineDone, subscriberLog, discarded>>

\* The loop left only when the popped event is the sentinel.
Discards_SentinelOnly(flag, e) == flag /\ e = Sentinel

\* The test of the flag right after waitPop returns, whatever was popped.
Discards(flag, e) == flag

\* if (mIsStopRequested) break;
checkStopRequested ==
    /\ readerPc = "checkStop"
    /\ IF Discards(mIsStopRequested, event[1])
       THEN /\ readerPc' = "exited"
            /\ discarded' = discarded \cup {event[1]}
            /\ event' = <<>>
       ELSE /\ readerPc' = "OnLogEvent"
            /\ UNCHANGED <<discarded, event>>
    /\ UNCHANGED <<readerUnchanged, queue, engineLog, engineReturned, engineDone, subscriberLog>>

\* The engine call started from a detached thread: it may overtake earlier ones.
engineOnLogEvent_Detached(e) ==
    \E i \in 0..Len(engineLog) :
        engineLog' = SubSeq(engineLog, 1, i) \o <<e>> \o SubSeq(engineLog, i + 1, Len(engineLog))

\* mProcessor->OnLogEvent(event.get()) is entered.
engineOnLogEvent(e) == engineLog' = Append(engineLog, e)

\* The subscriber told of the event as the engine call starts, before it returns.
callProcessor_SubscriberFirst ==
    /\ readerPc = "OnLogEvent"
    /\ engineLog' = Append(engineLog, event[1])
    /\ subscriberLog' = IF mShellSubscriber # "null"
                        THEN Append(subscriberLog, event[1])
                        ELSE subscriberLog
    /\ readerPc' = "inProcessor"
    /\ UNCHANGED <<readerUnchanged, queue, event, engineReturned, engineDone, discarded>>

\* mProcessor->OnLogEvent(event.get()) is called by the reader.
callProcessor ==
    /\ readerPc = "OnLogEvent"
    /\ engineOnLogEvent(event[1])
    /\ readerPc' = "inProcessor"
    /\ UNCHANGED <<readerUnchanged, queue, event, engineReturned, engineDone, subscriberLog, discarded>>

\* mProcessor->OnLogEvent returns.
processorReturns ==
    /\ readerPc = "inProcessor"
    /\ engineReturned' = engineReturned + 1
    /\ engineDone' = engineDone \cup {event[1]}
    /\ readerPc' = "subscriber"
    /\ UNCHANGED <<readerUnchanged, queue, event, engineLog, subscriberLog, discarded>>

\* The subscriber branch calling the engine again in place of the subscriber.
subscriberOnLogEvent_EngineAgain(e) ==
    /\ engineLog' = Append(engineLog, e)
    /\ UNCHANGED subscriberLog

\* mShellSubscriber->onLogEvent(*event)
subscriberOnLogEvent(e) ==
    /\ subscriberLog' = Append(subscriberLog, e)
    /\ UNCHANGED engineLog

\* if (mShellSubscriber != nullptr) ...; the event is released, the loop repeats.
callSubscriber ==
    /\ readerPc = "subscriber"
    /\ IF mShellSubscriber # "null"
       THEN subscriberOnLogEvent(event[1])
       ELSE UNCHANGED <<engineLog, subscriberLog>>
    /\ event' = <<>>
    /\ readerPc' = "waitPop"
    /\ UNCHANGED <<readerUnchanged, queue, engineReturned, engineDone, discarded>>

readLogs ==
    \/ waitPop
    \/ checkStopRequested
    \/ callProcessor
    \/ processorReturns
    \/ callSubscriber

\* ------------------------------------------------------ initShellSubscriber
initShellSubscriber(t) ==
    /\ Callable(t)
    /\ mShellSubscriberMutex = 0
    /\ mShellSubscriber = "null"
    /\ mShellSubscriber' = "subscriber"
    /\ shellInstances' = shellInstances + 1
    /\ UNCHANGED <<bootVars, companionVars, facadeVars, mShellSubscriberMutex, usedSubscriber, thr, destroyed, hasEventQueue, mIsStopRequested, queue,
                   readerPc, event, nextEventId, enqueued, engineLog, engineReturned, engineDone,
                   subscriberLog, discarded>>

\* ------------------------------------------------- OnLogEvent (test entry)
\* The event a test thread hands to OnLogEvent: distinct from the queued ones.
TestEvent(t) == MaxEvents + t

\* OnLogEvent(event), called once by a test: mProcessor->OnLogEvent(event) is entered.
OnLogEvent(t) ==
    /\ Callable(t)
    /\ \A i \in 1..Len(engineLog) : engineLog[i] \in 1..MaxEvents
    /\ engineOnLogEvent(TestEvent(t))
    /\ thr' = [thr EXCEPT ![t] = At("inProcessor", "OnLogEvent", "")]
    /\ UNCHANGED <<bootVars, companionVars, facadeVars, subscriberVars, destroyed, hasEventQueue, mIsStopRequested, queue,
                   readerPc, event, mShellSubscriber, nextEventId, enqueued,
                   engineReturned, engineDone, subscriberLog, discarded>>

\* mProcessor->OnLogEvent(event) returns to OnLogEvent.
OnLogEventProcessorReturns(t) ==
    /\ thr[t].pc = "inProcessor"
    /\ thr[t].op = "OnLogEvent"
    /\ engineDone' = engineDone \cup {TestEvent(t)}
    /\ thr' = [thr EXCEPT ![t] = At("subscriber", "OnLogEvent", "")]
    /\ UNCHANGED <<bootVars, companionVars, facadeVars, subscriberVars, destroyed, hasEventQueue, mIsStopRequested, queue,
                   readerPc, event, mShellSubscriber, nextEventId, enqueued, engineLog,
                   engineReturned, subscriberLog, discarded>>

\* if (mShellSubscriber != nullptr) mShellSubscriber->onLogEvent(*event);
OnLogEventSubscriber(t) ==
    /\ thr[t].pc = "subscriber"
    /\ thr[t].op = "OnLogEvent"
    /\ IF mShellSubscriber # "null"
       THEN subscriberOnLogEvent(TestEvent(t))
       ELSE UNCHANGED <<engineLog, subscriberLog>>
    /\ thr' = [thr EXCEPT ![t] = Idle("ok")]
    /\ UNCHANGED <<bootVars, companionVars, facadeVars, subscriberVars, destroyed, hasEventQueue, mIsStopRequested, queue,
                   readerPc, event, mShellSubscriber, nextEventId, enqueued,
                   engineReturned, engineDone, discarded>>

\* ------------------------------------------------------ stopReadingLogs, join
stopReadingLogs_FlagOnly == <<"setStop">>

stopReadingLogs_PushFirst == <<"pushSentinel", "setStop">>

\* The statements of stopReadingLogs, in program order.
stopReadingLogs == <<"setStop", "pushSentinel">>

StopPc(i) == IF i = 1 THEN "stopReadingLogs" ELSE "stopReadingLogs2"

stopReadingLogsStep(t, i) ==
    /\ i \in 1..Len(stopReadingLogs)
    /\ thr[t].pc = StopPc(i)
    /\ IF stopReadingLogs[i] = "setStop"
       THEN mIsStopRequested' = TRUE /\ UNCHANGED queue
       ELSE queue' = QueuePush(queue, Sentinel) /\ UNCHANGED mIsStopRequested
    /\ thr' = [thr EXCEPT ![t] = IF i < Len(stopReadingLogs)
                                 THEN At(StopPc(i + 1), thr[t].op, "")
                                 ELSE At("join", thr[t].op, "")]
    /\ UNCHANGED <<bootVars, companionVars, facadeVars, subscriberVars, destroyed, hasEventQueue, readerPc, event, mShellSubscriber,
                   nextEventId, enqueued, engineLog, engineReturned, engineDone, subscriberLog,
                   discarded>>

\* mLogsReaderThread->join()
joinReader(t) ==
    /\ thr[t].pc = "join"
    /\ readerPc = "exited"
    /\ thr' = [thr EXCEPT ![t] = Idle("ok")]
    /\ UNCHANGED <<bootVars, logVars, companionVars, facadeVars, subscriberVars, destroyed>>

DestructorSteps ==
    \/ \E t \in Threads : notifyAll(t)
    \/ \E t \in Threads, i \in 1..2 : stopReadingLogsStep(t, i)
    \/ \E t \in Threads : joinReader(t)

NextLogs ==
    \/ pushEvent
    \/ readLogs
    \/ \E t \in Threads : initShellSubscriber(t)
    \/ \E t \in Threads : Destructor(t)
    \/ DestructorSteps

\* Threads the scheduler runs: the reader and the destroying thread keep going.
SpecLogs ==
    /\ InitLogs
    /\ [][NextLogs]_vars
    /\ WF_vars(readLogs)
    /\ WF_vars(DestructorSteps)

\* ---------------------------------------------------------- companion service
bootRest == <<mInitEventDelaySecs, satisfied, fired, initPc, initRunner, waitedSecs, mUidMap,
              marked, initStarted, processorInitCalls, notifiedAfterShutdown>>
terminationVars == <<mStatsdInitCompletedHandlerTerminationRequested, cancelEarly,
                     shutdownRequested, pendingAtShutdown>>
processVars == <<companionLive, companionsStarted, linked, deathPending>>
readyVars == <<readyPc, readyRef, readySt>>
diedVars == <<diedPc, activeConfigsProto, metadataList, parsedActiveConfigs, restarts,
              diedTrace, snapshot, appliedFrom>>
engineVars == <<hasProcessor, activeConfigs, metadataState>>
alarmVars == <<registered, changed, updateCalls, companionCalls, alarmCalls, lastCallback>>
notifVars == <<overlap, lastNotif>>

ConfigIds == 1..MaxConfigs

\* system_server starts the companion service, the first time or after its death.
companionStarts ==
    /\ companionLive = 0
    /\ companionsStarted < MaxCompanions
    /\ companionsStarted' = companionsStarted + 1
    /\ companionLive' = companionsStarted + 1
    /\ UNCHANGED <<bootVars, logVars, facadeVars, subscriberVars, thr, destroyed, linked, deathPending, handle, readyVars,
                   diedVars, engineVars, alarmVars, notifVars>>

\* The companion's process dies; a linked death recipient is to be notified. The
\* binder runtime has delivered the notification of any earlier death by then.
companionDies ==
    /\ companionLive # 0
    /\ deathPending = {}
    /\ companionLive' = 0
    /\ linked' = linked \ {companionLive}
    /\ deathPending' = IF companionLive \in linked THEN deathPending \cup {companionLive}
                                                    ELSE deathPending
    /\ UNCHANGED <<bootVars, logVars, facadeVars, subscriberVars, thr, destroyed, companionsStarted, handle, readyVars,
                   diedVars, engineVars, alarmVars, notifVars>>

\* getStatsCompanionService(): the registered service, or nullptr.
getStatsCompanionService == companionLive

\* The completed notifications, latest first; the last two are kept.
Latest(n) == <<n>> \o (IF lastNotif = <<>> THEN <<>> ELSE <<lastNotif[1]>>)

\* A notification starts: it overlaps the other one exactly if that one is running.
Starts(kind, otherRunning) ==
    overlap' = IF otherRunning THEN [ready |-> TRUE, died |-> TRUE]
                               ELSE [overlap EXCEPT ![kind] = FALSE]

\* ------------------------------------------------------ statsCompanionReady
\* statsCompanionReady leaving the periodic alarm monitor without the new handle.
statsCompanionReady_NoPeriodic == <<"linkToDeath", "setPuller", "setAnomaly">>

\* The statements of statsCompanionReady after its checks, in program order.
statsCompanionReady == <<"linkToDeath", "setPuller", "setAnomaly", "setPeriodic">>

\* ENFORCE_UID(AID_SYSTEM); the companion is looked up; nullptr is an error.
\* A statsCompanionReady that goes on without the companion.
Unavailable_Unchecked(statsCompanion) == FALSE

\* if (statsCompanion == nullptr)
Unavailable(statsCompanion) == statsCompanion = 0

statsCompanionReadyBegin(uid) ==
    /\ readyPc = 0
    /\ ~destroyed
    /\ IF ~checkUid(uid, AID_SYSTEM)
       THEN /\ readySt' = "EX_SECURITY"
            /\ UNCHANGED <<readyPc, readyRef, overlap>>
       ELSE IF Unavailable(getStatsCompanionService)
       THEN /\ readySt' = "EX_NULL_POINTER"
            /\ UNCHANGED <<readyPc, readyRef, overlap>>
       ELSE /\ readyRef' = getStatsCompanionService
            /\ readyPc' = 1
            /\ readySt' = "running"
            /\ Starts("ready", diedPc # 0)
    /\ UNCHANGED <<bootVars, logVars, facadeVars, subscriberVars, thr, destroyed, processVars, handle, diedVars,
                   engineVars, alarmVars, lastNotif>>

\* ------------------------------------------------------------ AlarmMonitor
\* A monitor built without its minimum update interval.
mMinUpdateTimeSec_Unset(r) == 0

\* The minimum update interval the constructor gives monitor r.
mMinUpdateTimeSec(r) == MIN_DIFF_TO_UPDATE_REGISTERED_ALARM_SECS

Distance(a, b) == IF a < b THEN b - a ELSE a - b

\* The periodic callbacks calling through sc without testing it.
HasCompanion_Unchecked(sc) == TRUE

\* if (sc != nullptr) of the periodic monitor's callbacks.
HasCompanion(sc) == sc # 0

\* The periodic callbacks noting the change outside their if (sc != nullptr).
NotesChange_Always(r, sc) == TRUE

\* Whether monitor r's callbacks reach their noteRegistered...AlarmChanged().
NotesChange(r, sc) == IF r = "anomaly" THEN TRUE ELSE HasCompanion(sc)

\* The set and cancel callbacks of monitor r, called with the monitor's handle sc:
\* the anomaly ones call the engine, the periodic ones the companion.
Callback(r, sc) ==
    /\ changed' = IF NotesChange(r, sc) THEN [changed EXCEPT ![r] = @ + 1] ELSE changed
    /\ companionCalls' = IF r = "periodic" /\ HasCompanion(sc) THEN companionCalls + 1
                                                              ELSE companionCalls
    /\ lastCallback' = [r |-> r, sc |-> sc, forwarded |-> (r = "periodic" /\ HasCompanion(sc)),
                        recovering |-> (diedPc # 0)]

\* A monitor that forwards its outstanding alarm to the handle it is given.
ForwardsOnRelink_Outstanding(r) == registered[r] # 0

\* AlarmMonitor::setStatsCompanionService stores the handle and forwards nothing.
ForwardsOnRelink(r) == FALSE

statsCompanionReadyStep ==
    /\ readyPc \in 1..Len(statsCompanionReady)
    /\ LET stmt == statsCompanionReady[readyPc]
           last == readyPc = Len(statsCompanionReady)
       IN  /\ linked' = IF stmt = "linkToDeath" /\ readyRef = companionLive
                        THEN linked \cup {readyRef}
                        ELSE linked
           /\ handle' = CASE stmt = "setPuller" -> [handle EXCEPT !["puller"] = readyRef]
                          [] stmt = "setAnomaly" -> [handle EXCEPT !["anomaly"] = readyRef]
                          [] stmt = "setPeriodic" -> [handle EXCEPT !["periodic"] = readyRef]
                          [] OTHER -> handle
           /\ readyPc' = IF last THEN 0 ELSE readyPc + 1
           /\ readySt' = IF last THEN "ok" ELSE readySt
           /\ lastNotif' = IF last
                           THEN Latest([kind |-> "ready", overlapped |-> overlap.ready])
                           ELSE lastNotif
           /\ overlap' = IF last THEN [overlap EXCEPT !.ready = FALSE] ELSE overlap
           /\ IF stmt = "setPeriodic" /\ ForwardsOnRelink("periodic")
              THEN /\ Callback("periodic", readyRef)
                   /\ UNCHANGED <<registered, updateCalls, alarmCalls>>
              ELSE UNCHANGED alarmVars
    /\ UNCHANGED <<bootVars, logVars, facadeVars, subscriberVars, thr, destroyed, companionLive, companionsStarted,
                   deathPending, readyRef, diedVars, engineVars>>

\* ------------------------------------------- statsCompanionServiceDiedImpl
\* WriteActiveConfigsToProtoOutputStream: one field per active configuration, by id.
WriteActiveConfigsToProtoOutputStream(configs) ==
    CHOOSE s \in [1..Cardinality(configs) -> configs] :
        \A i, j \in 1..Cardinality(configs) : i < j => s[i] < s[j]

\* serializeToString: the number of fields, then the fields.
serializeToString(proto) == <<Len(proto)>> \o proto

\* ParseFromString: the configurations of as many fields as the prefix announces;
\* it fails (<<>>) on a string that is shorter than announced.
ParseFromString(bytes) ==
    IF bytes = <<>> \/ Len(bytes) < 1 + bytes[1]
    THEN <<>>
    ELSE <<{bytes[1 + k] : k \in 1..bytes[1]}>>

\* The recovery never handing the metadata snapshot back to the engine.
ProcessorRecovery_NoMetadata ==
    <<"WriteActiveConfigsToProtoOutputStream", "WriteMetadataToProto", "WriteDataToDisk",
      "resetConfigs", "ParseFromString", "SetConfigsActiveState">>

\* The recovery resetting the engine before it has taken its snapshots.
ProcessorRecovery_ResetFirst ==
    <<"resetConfigs", "WriteActiveConfigsToProtoOutputStream", "WriteMetadataToProto",
      "WriteDataToDisk", "ParseFromString", "SetConfigsActiveState", "SetMetadataState">>

\* The statements inside if (mProcessor != nullptr), in program order.
ProcessorRecovery ==
    <<"WriteActiveConfigsToProtoOutputStream", "WriteMetadataToProto", "WriteDataToDisk",
      "resetConfigs", "ParseFromString", "SetConfigsActiveState", "SetMetadataState">>

\* The recovery leaving the puller manager with the dead companion's handle.
ClearHandles_NoPuller == <<"clearAnomaly", "clearPeriodic">>

\* The three setStatsCompanionService(nullptr) calls, in program order.
ClearHandles == <<"clearAnomaly", "clearPeriodic", "clearPuller">>

\* The statements of statsCompanionServiceDiedImpl, in program order.
statsCompanionServiceDiedImpl ==
    <<"noteSystemServerRestart", "onStatsdInitCompletedHandlerTermination">>
        \o (IF hasProcessor THEN ProcessorRecovery ELSE <<>>)
        \o ClearHandles

\* The binder runtime delivers the death notification of companion dead.
statsCompanionServiceDied(dead) ==
    /\ dead \in deathPending
    /\ diedPc = 0
    /\ deathPending' = deathPending \ {dead}
    /\ diedPc' = 1
    /\ activeConfigsProto' = <<>>
    /\ metadataList' = {}
    /\ parsedActiveConfigs' = <<>>
    /\ diedTrace' = <<>>
    /\ snapshot' = [active |-> {}, metadata |-> {}, dead |-> dead]
    /\ appliedFrom' = [active |-> "none", metadata |-> "none"]
    /\ Starts("died", readyPc # 0)
    /\ UNCHANGED <<bootVars, logVars, facadeVars, subscriberVars, thr, destroyed, companionLive, companionsStarted,
                   linked, handle, readyVars, restarts, engineVars, alarmVars, lastNotif>>

statsCompanionServiceDiedStep ==
    /\ diedPc \in 1..Len(statsCompanionServiceDiedImpl)
    /\ LET stmt == statsCompanionServiceDiedImpl[diedPc]
           last == diedPc = Len(statsCompanionServiceDiedImpl)
       IN  /\ diedTrace' = Append(diedTrace, stmt)
           /\ restarts' = IF stmt = "noteSystemServerRestart" THEN restarts + 1 ELSE restarts
           /\ IF stmt = "onStatsdInitCompletedHandlerTermination"
              THEN setTerminationRequested(FALSE)
              ELSE UNCHANGED terminationVars
           /\ activeConfigsProto' = IF stmt = "WriteActiveConfigsToProtoOutputStream"
                                    THEN WriteActiveConfigsToProtoOutputStream(activeConfigs)
                                    ELSE activeConfigsProto
           /\ metadataList' = IF stmt = "WriteMetadataToProto" THEN metadataState
                                                              ELSE metadataList
           /\ snapshot' = CASE stmt = "WriteActiveConfigsToProtoOutputStream" ->
                                   [snapshot EXCEPT !.active = activeConfigs]
                            [] stmt = "WriteMetadataToProto" ->
                                   [snapshot EXCEPT !.metadata = metadataState]
                            [] OTHER -> snapshot
           /\ lastDiskWrite' = IF stmt = "WriteDataToDisk" THEN "STATSCOMPANION_DIED"
                                                           ELSE lastDiskWrite
           /\ parsedActiveConfigs' =
                  IF stmt = "ParseFromString"
                  THEN ParseFromString(serializeToString(activeConfigsProto))
                  ELSE parsedActiveConfigs
           /\ activeConfigs' = CASE stmt = "resetConfigs" -> {}
                                 [] stmt = "SetConfigsActiveState" /\ parsedActiveConfigs # <<>> ->
                                        parsedActiveConfigs[1]
                                 [] OTHER -> activeConfigs
           /\ metadataState' = CASE stmt = "resetConfigs" -> {}
                                 [] stmt = "SetMetadataState" -> metadataList
                                 [] OTHER -> metadataState
           /\ appliedFrom' = CASE stmt = "SetConfigsActiveState" /\ parsedActiveConfigs # <<>> ->
                                      [appliedFrom EXCEPT !.active = "parsed"]
                               [] stmt = "SetMetadataState" ->
                                      [appliedFrom EXCEPT !.metadata = "message"]
                               [] OTHER -> appliedFrom
           /\ handle' = CASE stmt = "clearAnomaly" -> [handle EXCEPT !["anomaly"] = 0]
                          [] stmt = "clearPeriodic" -> [handle EXCEPT !["periodic"] = 0]
                          [] stmt = "clearPuller" -> [handle EXCEPT !["puller"] = 0]
                          [] OTHER -> handle
           /\ diedPc' = IF last THEN 0 ELSE diedPc + 1
           /\ lastNotif' = IF last
                           THEN Latest([kind |-> "died", overlapped |-> overlap.died])
                           ELSE lastNotif
           /\ overlap' = IF last THEN [overlap EXCEPT !.died = FALSE] ELSE overlap
    /\ UNCHANGED <<bootRest, logVars, facadeVars, subscriberVars, thr, destroyed, processVars, readyVars, hasProcessor,
                   alarmVars>>

\* --------------------------------------------------- AlarmMonitor calls
\* setAlarm(time): ignored within the minimum interval of the registered time.
setAlarm(r, time) ==
    /\ hasProcessor
    /\ ~destroyed
    /\ alarmCalls.made < MaxAlarmCalls
    /\ IF registered[r] = 0 \/ Distance(time, registered[r]) >= mMinUpdateTimeSec(r)
       THEN /\ registered' = [registered EXCEPT ![r] = time]
            /\ updateCalls' = [updateCalls EXCEPT ![r] = @ + 1]
            /\ alarmCalls' = [alarmCalls EXCEPT !.made = @ + 1]
            /\ Callback(r, handle[r])
       ELSE /\ alarmCalls' = [made |-> alarmCalls.made + 1, ignored |-> alarmCalls.ignored + 1]
            /\ UNCHANGED <<registered, updateCalls, changed, companionCalls, lastCallback>>
    /\ UNCHANGED <<bootVars, logVars, facadeVars, subscriberVars, thr, destroyed, processVars, handle, readyVars,
                   diedVars, engineVars, notifVars>>

\* cancelAlarm(): forwarded only if a registration is outstanding.
cancelAlarm(r) ==
    /\ hasProcessor
    /\ ~destroyed
    /\ alarmCalls.made < MaxAlarmCalls
    /\ alarmCalls' = [alarmCalls EXCEPT !.made = @ + 1]
    /\ IF registered[r] # 0
       THEN /\ registered' = [registered EXCEPT ![r] = 0]
            /\ Callback(r, handle[r])
       ELSE UNCHANGED <<registered, changed, companionCalls, lastCallback>>
    /\ UNCHANGED <<bootVars, logVars, facadeVars, subscriberVars, thr, destroyed, processVars, handle, readyVars,
                   diedVars, engineVars, notifVars, updateCalls>>

\* ---------------------------------------------------------- caller identity
\* Security labels and arguments are strings, kept as sequences of pieces: a word
\* is one piece, a number one piece per digit.
Word(w) == <<w>>

kTracedProbesSid == <<"u", "r", "traced_probes", "s0">>
kPermissionDump == "android.permission.DUMP"
kPermissionRegisterPullAtom == "android.permission.REGISTER_STATS_PULL_ATOM"

\* AIBinder_getCallingSid() returned nullptr, or the platform has no such call.
NullSid == <<>>
Sids == {NullSid, kTracedProbesSid, kTracedProbesSid \o <<"c512">>,
         <<"u", "r", "system_server", "s0">>}
Permissions == {{}, {kPermissionDump}, {kPermissionRegisterPullAtom}}

\* The callers: uid, security label and permissions as the transport reports them.
UidCallers == [uid : CallerUids, sid : {NullSid}, perms : {{}}]
PermissionCallers == [uid : {AID_SYSTEM, AID_SHELL}, sid : {NullSid}, perms : Permissions]
SidCallers == [uid : {AID_ROOT, AID_SYSTEM}, sid : Sids, perms : {{}}]

\* A check that any permission the caller holds satisfies.
checkPermission_AnyPermission(caller, permission) == caller.perms # {}

\* checkPermission: checkPermissionForIds(permission, pid, uid).
checkPermission(caller, permission) == permission \in caller.perms

\* strcmp, as far as its callers look: zero exactly for equal strings.
strcmp(a, b) == IF a = b THEN 0 ELSE 1

\* A label check comparing only the first strlen(expectedSid) characters.
checkSid_Prefix(caller, expectedSid) ==
    \/ caller.uid = AID_ROOT
    \/ /\ caller.sid # NullSid
       /\ Len(caller.sid) >= Len(expectedSid)
       /\ SubSeq(caller.sid, 1, Len(expectedSid)) = expectedSid

\* checkSid: root, or a label that is present and equal to the expected one.
checkSid(caller, expectedSid) ==
    \/ caller.uid = AID_ROOT
    \/ /\ caller.sid # NullSid
       /\ strcmp(expectedSid, caller.sid) = 0

\* A shell entry that lets every uid in.
ShellAllowed_Unchecked(uid) == TRUE

\* handleShellCommand: uid != AID_ROOT && uid != AID_SHELL is turned away.
ShellAllowed(uid) == ~(uid # AID_ROOT /\ uid # AID_SHELL)

\* ------------------------------------------------- engine and ConfigManager
ConfigKey(uid, id) == [uid |-> uid, id |-> id]

\* A length in bytes as two 16-bit halves: hi * 2^16 + lo.
Size(hi, lo) == [hi |-> hi, lo |-> lo]
Empty == Size(0, 0)
AtLeast(a, b) == a.hi > b.hi \/ (a.hi = b.hi /\ a.lo >= b.lo)

\* std::numeric_limits<int32_t>::max()
Int32Max == Size(32767, 65535)

\* The lengths of the reports the engine builds, around the limits of 32 bits.
ReportSizes == {Size(0, 1), Size(0, 258), Size(1, 2), Size(32767, 65534), Int32Max,
                Size(32768, 0), Size(65535, 65535), Size(65536, 0)}

\* The report a new configuration starts with.
ConfigReports == {Size(0, 1)}

\* The report data the engine holds for key: its length stands for its bytes.
ReportOf(key) ==
    IF \E r \in reports : r.key = key
    THEN (CHOOSE r \in reports : r.key = key).data
    ELSE Empty

\* What is written to a caller: a line of text, a byte, a block of report bytes.
Line(text) == [kind |-> "line", text |-> text, data |-> Empty]
Byte(b) == [kind |-> "byte", text |-> "", data |-> Size(0, b)]
Block(data) == [kind |-> "block", text |-> "", data |-> data]

\* The bytes of a report: nothing, or one block of data's length.
Bytes(data) == IF data = Empty THEN <<>> ELSE <<Block(data)>>

Without(key) == {r \in reports : r.key # key}

\* What a request does: its status and output, the keys and uids it acted for, the
\* dump it asked of the engine, the collaborator call it made.
Outcome(status, out) ==
    [status |-> status, out |-> out, keys |-> {}, actedFor |-> {}, dump |-> {},
     callbacks |-> {}, config |-> "none", effect |-> "none"]

\* A request turned away before its body.
Rejected(status) == Outcome(status, <<>>)

\* The collaborators carrying out what the request asked of them.
Apply(o) ==
    /\ mConfigs' = CASE o.effect = "UpdateConfig" -> mConfigs \cup o.keys
                     [] o.effect = "RemoveConfig" -> mConfigs \ o.keys
                     [] o.effect = "RemoveAllConfigs" -> {}
                     [] OTHER -> mConfigs
    /\ \E data \in ConfigReports :
        reports' = CASE o.effect = "UpdateConfig" ->
                            {r \in reports : r.key \notin o.keys}
                                \cup {[key |-> k, data |-> data] : k \in o.keys}
                     [] o.effect = "RemoveConfig" -> {r \in reports : r.key \notin o.keys}
                     [] o.effect = "RemoveAllConfigs" -> {}
                     [] o.effect = "onDumpReport" ->
                            {r \in reports : \A d \in o.dump : ~(d.eraseData /\ d.key = r.key)}
                     [] OTHER -> reports
    /\ receivers' = CASE o.effect = "SetConfigReceiver" -> receivers \cup o.keys
                      [] o.effect \in {"RemoveConfigReceiver", "RemoveConfig"} ->
                             receivers \ o.keys
                      [] o.effect = "RemoveAllConfigs" -> {}
                      [] OTHER -> receivers
    /\ pullers' = CASE o.effect = "RegisterPullAtomCallback" -> pullers \cup o.actedFor
                    [] o.effect = "UnregisterPullAtomCallback" -> pullers \ o.actedFor
                    [] OTHER -> pullers
    /\ subscriptions' = CASE o.effect = "startNewSubscription" -> subscriptions \cup o.callbacks
                          [] o.effect = "unsubscribe" -> subscriptions \ o.callbacks
                          [] OTHER -> subscriptions
    /\ mShellSubscriber' = IF o.effect = "startNewSubscription" THEN "subscriber"
                                                               ELSE mShellSubscriber
    /\ shellInstances' = IF o.effect = "startNewSubscription" /\ mShellSubscriber = "null"
                         THEN shellInstances + 1
                         ELSE shellInstances

requestUnchanged == <<bootVars, companionVars, thr, destroyed, mEngBuild, hasEventQueue,
                      mShellSubscriberMutex, usedSubscriber,
                      mIsStopRequested, queue, readerPc, event, nextEventId, enqueued,
                      engineLog, engineReturned, engineDone, subscriberLog, discarded>>

\* A request is served in one step and remembered as the last call; the engine
\* the constructor has created is there to serve it.
Serve(m, caller, args, declared, admitted, o) ==
    /\ ~destroyed
    /\ hasProcessor
    /\ lastCall' = [method |-> m, caller |-> caller, args |-> args, declared |-> declared,
                    status |-> o.status, body |-> admitted, keys |-> o.keys,
                    actedFor |-> o.actedFor, dump |-> o.dump, callbacks |-> o.callbacks,
                    config |-> o.config, effect |-> o.effect, out |-> o.out]
    /\ Apply(o)
    /\ UNCHANGED requestUnchanged

\* The engine collects data for a configuration: its report becomes data.
engineCollects(key, data) ==
    /\ ~destroyed
    /\ key \in mConfigs
    /\ ReportOf(key) # data
    /\ reports' = Without(key) \cup {[key |-> key, data |-> data]}
    /\ UNCHANGED <<requestUnchanged, mConfigs, receivers, pullers, subscriptions,
                   mShellSubscriber, shellInstances, lastCall>>

\* ------------------------------------------------------------ binder methods
\* The methods beginning with ENFORCE_UID(AID_SYSTEM) that are served here by
\* their entry check alone.
OtherSystemMethods ==
    {"informAllUidData", "informOnePackage", "informOnePackageRemoved",
     "informAnomalyAlarmFired", "informAlarmForSubscriberTriggeringFired",
     "informPollAlarmFired", "systemRunning", "informDeviceShutdown", "statsCompanionReady",
     "bootCompleted", "getMetadata", "setActiveConfigsChangedOperation",
     "removeActiveConfigsChangedOperation", "setBroadcastSubscriber",
     "unsetBroadcastSubscriber", "allPullersFromBootRegistered", "getRegisteredExperimentIds",
     "updateProperties", "setRestrictedMetricsChangedOperation",
     "removeRestrictedMetricsChangedOperation", "querySql"}

systemMethod(m, caller) ==
    Serve(m, caller, <<>>, {}, checkUid(caller.uid, AID_SYSTEM),
          IF checkUid(caller.uid, AID_SYSTEM)
          THEN [Outcome("ok", <<>>) EXCEPT !.effect = m]
          ELSE Rejected("EX_SECURITY"))

Configurations == {"empty", "valid", "malformed"}

\* An addConfigurationChecked that parses whatever it is given.
SkipsParsing_Never(config) == FALSE

\* if (config.size() > 0) is false: the bytes are not parsed and cfg stays the
\* StatsdConfig the default constructor made.
SkipsParsing(config) == config = "empty"

\* cfg.ParseFromArray(&config[0], config.size()) on bytes that are there.
ParseFromArray(config) == config = "valid"

\* addConfigurationChecked: bytes that do not parse are refused, others given to
\* the ConfigManager under ConfigKey(uid, key).
addConfigurationChecked(uid, key, config) ==
    IF ~SkipsParsing(config) /\ ~ParseFromArray(config)
    THEN Outcome("EX_ILLEGAL_ARGUMENT", <<>>)
    ELSE [Outcome("ok", <<>>) EXCEPT
             !.keys = {ConfigKey(uid, key)}, !.actedFor = {uid},
             !.config = IF SkipsParsing(config) THEN "default" ELSE "parsed",
             !.effect = "UpdateConfig"]

\* addConfiguration; the bytes it was given are remembered with the call.
addConfiguration(caller, key, config, callingUid) ==
    Serve("addConfiguration", caller, <<Word(config)>>, {callingUid},
          checkUid(caller.uid, AID_SYSTEM),
          IF checkUid(caller.uid, AID_SYSTEM)
          THEN addConfigurationChecked(callingUid, key, config)
          ELSE Rejected("EX_SECURITY"))

removeConfiguration(caller, key, callingUid) ==
    Serve("removeConfiguration", caller, <<>>, {callingUid}, checkUid(caller.uid, AID_SYSTEM),
          IF checkUid(caller.uid, AID_SYSTEM)
          THEN [Outcome("ok", <<>>) EXCEPT !.keys = {ConfigKey(callingUid, key)},
                                           !.actedFor = {callingUid},
                                           !.effect = "RemoveConfig"]
          ELSE Rejected("EX_SECURITY"))

setDataFetchOperation(caller, key, callingUid) ==
    Serve("setDataFetchOperation", caller, <<>>, {callingUid},
          checkUid(caller.uid, AID_SYSTEM),
          IF checkUid(caller.uid, AID_SYSTEM)
          THEN [Outcome("ok", <<>>) EXCEPT !.keys = {ConfigKey(callingUid, key)},
                                           !.actedFor = {callingUid},
                                           !.effect = "SetConfigReceiver"]
          ELSE Rejected("EX_SECURITY"))

removeDataFetchOperation(caller, key, callingUid) ==
    Serve("removeDataFetchOperation", caller, <<>>, {callingUid},
          checkUid(caller.uid, AID_SYSTEM),
          IF checkUid(caller.uid, AID_SYSTEM)
          THEN [Outcome("ok", <<>>) EXCEPT !.keys = {ConfigKey(callingUid, key)},
                                           !.actedFor = {callingUid},
                                           !.effect = "RemoveConfigReceiver"]
          ELSE Rejected("EX_SECURITY"))

\* A getDataChecked that asks the engine to keep what it returns.
getDataChecked_KeepData(key, callingUid) ==
    [key |-> ConfigKey(callingUid, key), includeCurrentBucket |-> FALSE,
     eraseData |-> FALSE, dumpReportReason |-> "GET_DATA_CALLED"]

\* getDataChecked: what it asks of mProcessor->onDumpReport.
getDataChecked(key, callingUid) ==
    [key |-> ConfigKey(callingUid, key), includeCurrentBucket |-> FALSE,
     eraseData |-> TRUE, dumpReportReason |-> "GET_DATA_CALLED"]

\* The outcome of a dump: the report of the key is returned.
Dumped(status, out, dump) ==
    [Outcome(status, out) EXCEPT !.keys = {dump.key}, !.actedFor = {dump.key.uid},
                                 !.dump = {dump}, !.effect = "onDumpReport"]

getData(caller, key, callingUid) ==
    Serve("getData", caller, <<>>, {callingUid}, checkUid(caller.uid, AID_SYSTEM),
          IF checkUid(caller.uid, AID_SYSTEM)
          THEN Dumped("ok", Bytes(ReportOf(ConfigKey(callingUid, key))),
                      getDataChecked(key, callingUid))
          ELSE Rejected("EX_SECURITY"))

\* A size check that lets a report of exactly INT32_MAX bytes through.
ReportTooBig_Above(data) == AtLeast(data, Int32Max) /\ data # Int32Max

\* reportData.size() >= std::numeric_limits<int32_t>::max()
ReportTooBig(data) == AtLeast(data, Int32Max)

\* htonl(static_cast<uint32_t>(size)) as it lies in memory: four bytes, the most
\* significant first.
htonl(data) ==
    <<Byte((data.hi % 65536) \div 256), Byte(data.hi % 256), Byte(data.lo \div 256),
      Byte(data.lo % 256)>>

Descriptors == {"open", "closed"}

\* A getDataFd that tests the descriptor and the length before it takes the
\* report from the engine: a call that fails erases nothing.
getDataFdChecked_TestFirst(key, callingUid, fd) ==
    LET data == ReportOf(ConfigKey(callingUid, key))
    IN  IF ReportTooBig(data) \/ fd = "closed"
        THEN Outcome("EX_ILLEGAL_STATE", <<>>)
        ELSE Dumped("ok", htonl(data) \o Bytes(data), getDataChecked(key, callingUid))

\* getDataFd after its entry check: the report is taken from the engine, then
\* its length and its bytes are written to fd unless it is too big.
getDataFdChecked(key, callingUid, fd) ==
    LET data == ReportOf(ConfigKey(callingUid, key))
    IN  IF ReportTooBig(data) \/ fd = "closed"
        THEN Dumped("EX_ILLEGAL_STATE", <<>>, getDataChecked(key, callingUid))
        ELSE Dumped("ok", htonl(data) \o Bytes(data), getDataChecked(key, callingUid))

getDataFd(caller, key, callingUid, fd) ==
    Serve("getDataFd", caller, Word(fd), {callingUid}, checkUid(caller.uid, AID_SYSTEM),
          IF checkUid(caller.uid, AID_SYSTEM)
          THEN getDataFdChecked(key, callingUid, fd)
          ELSE Rejected("EX_SECURITY"))

\* ------------------------------------------------------ pull atom callbacks
PullAtomMethods == {"registerPullAtomCallback", "registerNativePullAtomCallback",
                    "unregisterPullAtomCallback", "unregisterNativePullAtomCallback"}

\* The call on the puller manager, for the atom tag the callers agree on.
PullerCall(m, uid) ==
    [Outcome("ok", <<>>) EXCEPT
        !.actedFor = {uid},
        !.effect = IF m \in {"registerPullAtomCallback", "registerNativePullAtomCallback"}
                   THEN "RegisterPullAtomCallback"
                   ELSE "UnregisterPullAtomCallback"]

registerPullAtomCallback(caller, uid) ==
    Serve("registerPullAtomCallback", caller, <<>>, {uid}, checkUid(caller.uid, AID_SYSTEM),
          IF checkUid(caller.uid, AID_SYSTEM)
          THEN PullerCall("registerPullAtomCallback", uid)
          ELSE Rejected("EX_SECURITY"))

unregisterPullAtomCallback(caller, uid) ==
    Serve("unregisterPullAtomCallback", caller, <<>>, {uid}, checkUid(caller.uid, AID_SYSTEM),
          IF checkUid(caller.uid, AID_SYSTEM)
          THEN PullerCall("unregisterPullAtomCallback", uid)
          ELSE Rejected("EX_SECURITY"))

registerNativePullAtomCallback(caller) ==
    Serve("registerNativePullAtomCallback", caller, <<>>, {},
          checkPermission(caller, kPermissionRegisterPullAtom),
          IF checkPermission(caller, kPermissionRegisterPullAtom)
          THEN PullerCall("registerNativePullAtomCallback", caller.uid)
          ELSE Rejected("EX_SECURITY"))

unregisterNativePullAtomCallback(caller) ==
    Serve("unregisterNativePullAtomCallback", caller, <<>>, {},
          checkPermission(caller, kPermissionRegisterPullAtom),
          IF checkPermission(caller, kPermissionRegisterPullAtom)
          THEN PullerCall("unregisterNativePullAtomCallback", caller.uid)
          ELSE Rejected("EX_SECURITY"))

\* ------------------------------------------------------------ subscriptions
SubscriptionMethods == {"addSubscription", "removeSubscription", "flushSubscription"}
SubscriptionCallbacks == {"callback"}

addSubscription(caller, callback) ==
    Serve("addSubscription", caller, <<>>, {}, checkSid(caller, kTracedProbesSid),
          IF checkSid(caller, kTracedProbesSid)
          THEN [Outcome("ok", <<>>) EXCEPT !.callbacks = {callback},
                                           !.effect = "startNewSubscription"]
          ELSE Rejected("EX_SECURITY"))

removeSubscription(caller, callback) ==
    Serve("removeSubscription", caller, <<>>, {}, checkSid(caller, kTracedProbesSid),
          IF checkSid(caller, kTracedProbesSid)
          THEN IF mShellSubscriber # "null"
               THEN [Outcome("ok", <<>>) EXCEPT !.callbacks = {callback}, !.effect = "unsubscribe"]
               ELSE Outcome("ok", <<>>)
          ELSE Rejected("EX_SECURITY"))

flushSubscription(caller, callback) ==
    Serve("flushSubscription", caller, <<>>, {}, checkSid(caller, kTracedProbesSid),
          IF checkSid(caller, kTracedProbesSid)
          THEN IF mShellSubscriber # "null"
               THEN [Outcome("ok", <<>>) EXCEPT !.callbacks = {callback},
                                                !.effect = "flushSubscription"]
               ELSE Outcome("ok", <<>>)
          ELSE Rejected("EX_SECURITY"))

\* ------------------------------------------- first use of the ShellSubscriber
\* A lock that every thread passes at once.
MutexAvailable_NoMutex(holder) == TRUE

\* std::lock_guard<std::mutex> lock(mShellSubscriberMutex) goes on when no thread
\* holds the mutex.
MutexAvailable(holder) == holder = 0

FirstUseRequests == {"data-subscribe", "addSubscription"}

\* What is left of the thread's request: unchanged by the steps of
\* initShellSubscriber.
subscriberUnchanged == <<bootVars, companionVars, facadeVars, destroyed, hasEventQueue,
                         mIsStopRequested, queue, readerPc, event, nextEventId, enqueued,
                         engineLog, engineReturned, engineDone, subscriberLog, discarded>>

\* A thread enters handleShellCommand data-subscribe or addSubscription; one that
\* passes the entry check goes on to initShellSubscriber.
firstUse(t, request, caller) ==
    /\ Callable(t)
    /\ IF request = "data-subscribe" THEN ShellAllowed(caller.uid)
                                     ELSE checkSid(caller, kTracedProbesSid)
    /\ thr' = [thr EXCEPT ![t] = At("lock", request, "")]
    /\ UNCHANGED <<subscriberUnchanged, subscriberVars, mShellSubscriber>>

\* std::lock_guard<std::mutex> lock(mShellSubscriberMutex);
lockShellSubscriber(t) ==
    /\ thr[t].pc = "lock"
    /\ MutexAvailable(mShellSubscriberMutex)
    /\ mShellSubscriberMutex' = t
    /\ thr' = [thr EXCEPT ![t].pc = "test"]
    /\ UNCHANGED <<subscriberUnchanged, shellInstances, usedSubscriber, mShellSubscriber>>

\* if (mShellSubscriber == nullptr)
testShellSubscriber(t) ==
    /\ thr[t].pc = "test"
    /\ thr' = [thr EXCEPT ![t].pc = IF mShellSubscriber = "null" THEN "new" ELSE "unlock"]
    /\ UNCHANGED <<subscriberUnchanged, subscriberVars, mShellSubscriber>>

\* mShellSubscriber = new ShellSubscriber(mUidMap, mPullerManager, mLogEventFilter);
newShellSubscriber(t) ==
    /\ thr[t].pc = "new"
    /\ shellInstances' = shellInstances + 1
    /\ mShellSubscriber' = "subscriber"
    /\ thr' = [thr EXCEPT ![t].pc = "unlock"]
    /\ UNCHANGED <<subscriberUnchanged, mShellSubscriberMutex, usedSubscriber>>

\* The lock_guard goes out of scope: initShellSubscriber returns.
unlockShellSubscriber(t) ==
    /\ thr[t].pc = "unlock"
    /\ mShellSubscriberMutex' = 0
    /\ thr' = [thr EXCEPT ![t].pc = "start"]
    /\ UNCHANGED <<subscriberUnchanged, shellInstances, usedSubscriber, mShellSubscriber>>

\* mShellSubscriber->startNewSubscription(...): the instance the member points
\* to, the one constructed last, is the one subscribed on; the request returns.
startNewSubscription(t) ==
    /\ thr[t].pc = "start"
    /\ usedSubscriber' = [usedSubscriber EXCEPT ![t] = shellInstances]
    /\ thr' = [thr EXCEPT ![t] = Idle("ok")]
    /\ UNCHANGED <<subscriberUnchanged, mShellSubscriberMutex, shellInstances,
                   mShellSubscriber>>

\* ------------------------------------------------------------ shell commands
Digits == <<"0", "1", "2", "3", "4", "5", "6", "7", "8", "9">>
IsDigit(c) == \E d \in 1..Len(Digits) : Digits[d] = c
DigitValue(c) == (CHOOSE d \in 1..Len(Digits) : Digits[d] = c) - 1

\* strtol in base ten: the value of the leading digits of s, and where it stopped.
\* The arguments here have no sign, no space and no leading zero.
RECURSIVE strtolFrom(_, _, _)
strtolFrom(s, i, acc) ==
    IF i > Len(s) \/ ~IsDigit(s[i])
    THEN [value |-> acc, endc |-> i]
    ELSE strtolFrom(s, i + 1, acc * 10 + DigitValue(s[i]))

strtol(s) == strtolFrom(s, 1, 0)

\* StrToInt64: the number a string spells, 0 for a string that is not a number.
StrToInt64(s) == IF s # <<>> /\ strtol(s).endc > Len(s) THEN strtol(s).value ELSE 0

\* An impersonation rule under which root may act for every uid.
MayImpersonate_RootAny(callingUid, goodUid) ==
    mEngBuild \/ callingUid = goodUid \/ callingUid = AID_ROOT

\* The return expression of getUidFromString.
MayImpersonate(callingUid, goodUid) ==
    mEngBuild \/ callingUid = goodUid \/ (callingUid = AID_ROOT /\ goodUid = AID_SHELL)

\* getUidFromString: s must be a number and a uid; the values here are below 2^31,
\* where the casts to int32_t and uid_t change nothing.
getUidFromString(s, callingUid) ==
    IF s = <<>> \/ strtol(s).endc <= Len(s)
    THEN [ok |-> FALSE, uid |-> callingUid, parsed |-> FALSE]
    ELSE [ok |-> MayImpersonate(callingUid, strtol(s).value), uid |-> strtol(s).value,
          parsed |-> TRUE]

\* getUidFromArgs; args[uidArgIndex] of the source is args[uidArgIndex + 1] here.
getUidFromArgs(args, uidArgIndex, callingUid) ==
    getUidFromString(args[uidArgIndex + 1], callingUid)

InvalidUid == Line("Invalid UID.")
Help == Line("usage")

\* A failed parse that returns the error without printing the usage block.
BadArguments_NoHelp(complaints) == Outcome("UNKNOWN_ERROR", complaints)

\* print_cmd_help after a failed parse, after the complaint about the uid if any.
BadArguments(complaints) == Outcome("UNKNOWN_ERROR", complaints \o <<Help>>)

\* The uids a command named in its arguments, for the record of the call.
Named(r) == IF r.parsed THEN {r.uid} ELSE {}

\* cmd_config update|remove [UID] NAME, the configuration read from in.
cmd_config(callingUid, args, in) ==
    LET argCount == Len(args)
        r == IF argCount = 4 THEN getUidFromArgs(args, 2, callingUid)
                             ELSE [ok |-> TRUE, uid |-> callingUid, parsed |-> FALSE]
        good == \/ argCount = 3
                \/ argCount = 4 /\ r.ok
                \/ argCount = 2 /\ args[2] = Word("remove")
        name == IF argCount >= 3 THEN args[argCount] ELSE <<>>
        complaints == IF argCount = 4 /\ ~r.ok THEN <<InvalidUid>> ELSE <<>>
    IN  IF argCount < 2 \/ args[2] \notin {Word("update"), Word("remove")}
        THEN Outcome("UNKNOWN_ERROR", <<Help>>)
        ELSE IF ~good
        THEN BadArguments(complaints)
        ELSE IF args[2] = Word("update")
        THEN IF name = <<>> \/ strtol(name).endc <= Len(name)
             THEN Outcome("UNKNOWN_ERROR", <<Line("Error parsing config ID.")>>)
             ELSE IF in = "malformed"
             THEN Outcome("UNKNOWN_ERROR", <<Line("Error parsing proto stream for StatsConfig.")>>)
             ELSE [Outcome("NO_ERROR", <<>>) EXCEPT
                      !.keys = {ConfigKey(r.uid, strtol(name).value)},
                      !.actedFor = {r.uid}, !.effect = "UpdateConfig"]
        ELSE IF argCount = 2
        THEN [Outcome("NO_ERROR", <<Line("Removing all configs...")>>) EXCEPT
                 !.effect = "RemoveAllConfigs"]
        ELSE [Outcome("NO_ERROR", <<>>) EXCEPT
                 !.keys = {ConfigKey(r.uid, StrToInt64(name))},
                 !.actedFor = {r.uid}, !.effect = "RemoveConfig"]

\* A dump-report that looks for its trailing flags in the order of the usage
\* line: --keep_data, then --include_current_bucket, then --proto.
StripFlags_UsageOrder(args, erased) ==
    LET n0 == Len(args)
        keep == args[n0] = Word("--keep_data")
        n1 == IF keep THEN n0 - 1 ELSE n0
        includeCurrentBucket == args[n1] = Word("--include_current_bucket")
        n2 == IF includeCurrentBucket THEN n1 - 1 ELSE n1
        proto == args[n2] = Word("--proto")
        n3 == IF proto THEN n2 - 1 ELSE n2
    IN  [proto |-> proto, includeCurrentBucket |-> includeCurrentBucket,
         eraseData |-> IF keep THEN erased ELSE TRUE, argCount |-> n3]

\* The trailing flags of dump-report, looked for at the end of the arguments in
\* this order, each taken off when found; erased tells what a found --keep_data
\* makes of eraseData.
StripFlags(args, erased) ==
    LET n0 == Len(args)
        proto == args[n0] = Word("--proto")
        n1 == IF proto THEN n0 - 1 ELSE n0
        includeCurrentBucket == args[n1] = Word("--include_current_bucket")
        n2 == IF includeCurrentBucket THEN n1 - 1 ELSE n1
        keep == args[n2] = Word("--keep_data")
        n3 == IF keep THEN n2 - 1 ELSE n2
    IN  [proto |-> proto, includeCurrentBucket |-> includeCurrentBucket,
         eraseData |-> IF keep THEN erased ELSE TRUE, argCount |-> n3]

\* A dump-report on which --keep_data changes nothing.
DumpFlags_KeepIgnored(args) == StripFlags(args, TRUE)

\* cmd_dump_report: bool eraseData = true, set to false by --keep_data.
DumpFlags(args) == StripFlags(args, FALSE)

NonProto == Line("Non-proto stats data dump not currently supported.")

\* cmd_dump_report [UID] NAME [--keep_data] [--include_current_bucket] [--proto]
cmd_dump_report(callingUid, args) ==
    LET f == DumpFlags(args)
        r == IF f.argCount = 3 THEN getUidFromArgs(args, 1, callingUid)
                               ELSE [ok |-> TRUE, uid |-> callingUid, parsed |-> FALSE]
        good == f.argCount = 2 \/ (f.argCount = 3 /\ r.ok)
        name == args[f.argCount]
        key == ConfigKey(r.uid, StrToInt64(name))
        complaints == IF f.argCount = 3 /\ ~r.ok THEN <<InvalidUid>> ELSE <<>>
    IN  IF good
        THEN Dumped("OK", IF f.proto THEN Bytes(ReportOf(key)) ELSE <<NonProto>>,
                    [key |-> key, includeCurrentBucket |-> f.includeCurrentBucket,
                     eraseData |-> f.eraseData, dumpReportReason |-> "ADB_DUMP"])
        ELSE BadArguments(complaints)

\* cmd_trigger_broadcast [UID] NAME
cmd_trigger_broadcast(callingUid, args) ==
    LET argCount == Len(args)
        r == IF argCount = 3 THEN getUidFromArgs(args, 1, callingUid)
                             ELSE [ok |-> TRUE, uid |-> callingUid, parsed |-> FALSE]
        good == argCount = 2 \/ (argCount = 3 /\ r.ok)
        key == ConfigKey(r.uid, StrToInt64(args[argCount]))
        complaints == IF argCount = 3 /\ ~r.ok THEN <<InvalidUid>> ELSE <<>>
    IN  IF ~good
        THEN BadArguments(complaints)
        ELSE [Outcome(IF key \in receivers THEN "NO_ERROR" ELSE "UNKNOWN_ERROR", <<>>) EXCEPT
                 !.keys = {key}, !.actedFor = {r.uid},
                 !.effect = IF key \in receivers THEN "sendDataBroadcast"
                                                 ELSE "GetConfigReceiver"]

\* cmd_trigger_active_config_broadcast [--uid=UID]: no receiver of active
\* configurations is registered, so nothing is sent.
cmd_trigger_active_config_broadcast(callingUid, args) ==
    LET argCount == Len(args)
        named == argCount > 1 /\ Head(args[2]) = "--uid="
        r == IF named THEN getUidFromString(Tail(args[2]), callingUid)
                      ELSE [ok |-> TRUE, uid |-> callingUid, parsed |-> FALSE]
    IN  IF ~r.ok
        THEN Outcome("UNKNOWN_ERROR", <<InvalidUid>>)
        ELSE [Outcome("UNKNOWN_ERROR", <<>>) EXCEPT
                 !.actedFor = {r.uid}, !.effect = "GetActiveConfigsChangedReceiver"]

\* cmd_log_app_breadcrumb [UID] LABEL STATE
cmd_log_app_breadcrumb(callingUid, args) ==
    LET argCount == Len(args)
        r == IF argCount = 4 THEN getUidFromArgs(args, 1, callingUid)
                             ELSE [ok |-> TRUE, uid |-> callingUid, parsed |-> FALSE]
        good == argCount = 3 \/ (argCount = 4 /\ r.ok)
        complaints == IF argCount = 4 /\ ~r.ok THEN <<InvalidUid>> ELSE <<>>
    IN  IF good
        THEN [Outcome("NO_ERROR", <<Line("Logging AppBreadcrumbReported")>>) EXCEPT
                 !.actedFor = {r.uid}, !.effect = "stats_write"]
        ELSE BadArguments(complaints)

\* cmd_print_stats: the statistics of statsd are printed, whatever the arguments.
cmd_print_stats(args) ==
    [Outcome("NO_ERROR", <<Line("StatsdStats")>>) EXCEPT !.effect = "dumpStats"]

\* The uid a command was given, if it was given one that is a number.
NamedUid(args) ==
    LET n == IF args[1] = Word("dump-report") THEN DumpFlags(args).argCount ELSE Len(args)
    IN  CASE args[1] = Word("config") /\ n = 4 -> Named(getUidFromString(args[3], AID_ROOT))
          [] args[1] \in {Word("dump-report"), Word("send-broadcast")} /\ n = 3 ->
                 Named(getUidFromString(args[2], AID_ROOT))
          [] args[1] = Word("log-app-breadcrumb") /\ n = 4 ->
                 Named(getUidFromString(args[2], AID_ROOT))
          [] args[1] = Word("send-active-configs") /\ n > 1 /\ Head(args[2]) = "--uid=" ->
                 Named(getUidFromString(Tail(args[2]), AID_ROOT))
          [] OTHER -> {}

\* The commands served here; a name that is not a subcommand falls through to
\* print_cmd_help(out); return NO_ERROR.
Dispatch(callingUid, args, in) ==
    CASE args[1] = Word("config") -> cmd_config(callingUid, args, in)
      [] args[1] = Word("dump-report") -> cmd_dump_report(callingUid, args)
      [] args[1] = Word("send-broadcast") -> cmd_trigger_broadcast(callingUid, args)
      [] args[1] = Word("send-active-configs") ->
             cmd_trigger_active_config_broadcast(callingUid, args)
      [] args[1] = Word("log-app-breadcrumb") -> cmd_log_app_breadcrumb(callingUid, args)
      [] args[1] = Word("print-stats") -> cmd_print_stats(args)
      [] args[1] = Word("meminfo") ->
             [Outcome("NO_ERROR", <<Line("meminfo not available.")>>) EXCEPT
                 !.effect = "cmd_dump_memory_info"]
      [] OTHER -> Outcome("NO_ERROR", <<Help>>)

\* handleShellCommand with at least the name of a command.
handleShellCommand(caller, args, in) ==
    Serve("handleShellCommand", caller, args, NamedUid(args), ShellAllowed(caller.uid),
          IF ShellAllowed(caller.uid)
          THEN Dispatch(caller.uid, args, in)
          ELSE Rejected("PERMISSION_DENIED"))

\* ------------------------------------------------------------ specification
RpcCall(t) ==
    \/ \E uid \in CallerUids : bootCompleted(t, uid)
    \/ \E uid \in CallerUids : allPullersFromBootRegistered(t, uid)
    \/ \E uid \in CallerUids, payload \in UidPayloads : informAllUidData(t, uid, payload)
    \/ \E uid \in CallerUids : informDeviceShutdown(t, uid)

NextBoot ==
    \/ \E t \in Threads : RpcCall(t)
    \/ \E t \in Threads : markComplete(t)
    \/ \E t \in Threads : scheduleTrigger(t)
    \/ \E t \in Threads : Terminate(t)
    \/ \E t \in Threads : Destructor(t)
    \/ \E t \in Threads : notifyAll(t)
    \/ onStatsdInitCompletedBegin
    \/ waitOneSecond
    \/ waitWakeUp
    \/ waitTimeout
    \/ notifyProcessor

SpecBoot == InitBoot /\ [][NextBoot]_vars

\* The reader dispatching while tests call OnLogEvent; nothing stops the reader.
NextDispatch ==
    \/ pushEvent
    \/ readLogs
    \/ \E t \in Threads : initShellSubscriber(t)
    \/ \E t \in Threads : OnLogEvent(t)
    \/ \E t \in Threads : OnLogEventProcessorReturns(t)
    \/ \E t \in Threads : OnLogEventSubscriber(t)

SpecDispatch == InitLogs /\ [][NextDispatch]_vars

\* The service with an engine, every configuration active and with metadata, or,
\* as a test may leave it, without an engine.
InitCompanion ==
    /\ InitCommon
    /\ InitNoCompanion
    /\ mInitEventDelaySecs = MaxInitDelaySecs
    /\ hasEventQueue = FALSE
    /\ readerPc = "none"
    /\ hasProcessor \in BOOLEAN
    /\ activeConfigs = IF hasProcessor THEN ConfigIds ELSE {}
    /\ metadataState = activeConfigs

\* The companion coming and going and its notifications.
NextCompanion ==
    \/ companionStarts
    \/ companionDies
    \/ \E uid \in CallerUids : statsCompanionReadyBegin(uid)
    \/ statsCompanionReadyStep
    \/ \E dead \in 1..MaxCompanions : statsCompanionServiceDied(dead)
    \/ statsCompanionServiceDiedStep

SpecCompanion == InitCompanion /\ [][NextCompanion]_vars

\* The engine with any of its configurations active, with metadata or without.
InitRecovery ==
    /\ InitCommon
    /\ InitNoCompanion
    /\ mInitEventDelaySecs = MaxInitDelaySecs
    /\ hasEventQueue = FALSE
    /\ readerPc = "none"
    /\ hasProcessor = TRUE
    /\ activeConfigs \in SUBSET ConfigIds
    /\ metadataState \in {{}, activeConfigs}

SpecRecovery == InitRecovery /\ [][NextCompanion]_vars

\* The engine, every configuration active, with one alarm call left to make: the
\* earlier ones were cancelAlarm calls with nothing registered.
InitAlarmRace ==
    /\ InitCommon
    /\ mInitEventDelaySecs = MaxInitDelaySecs
    /\ hasEventQueue = FALSE
    /\ readerPc = "none"
    /\ hasProcessor = TRUE
    /\ activeConfigs = ConfigIds
    /\ metadataState = {}
    /\ InitMonitors(MaxAlarmCalls - 1)

\* The notifications racing with the engine's alarm call.
NextAlarmRace ==
    \/ NextCompanion
    \/ \E r \in Monitors : setAlarm(r, MaxAlarmSecs)
    \/ \E r \in Monitors : cancelAlarm(r)

SpecAlarmRace == InitAlarmRace /\ [][NextAlarmRace]_vars

\* The service as constructed: an engine with no configuration, no companion.
InitAlarm ==
    /\ InitCommon
    /\ InitNoCompanion
    /\ InitProcessor
    /\ mInitEventDelaySecs = MaxInitDelaySecs
    /\ hasEventQueue = FALSE
    /\ readerPc = "none"

\* The engine setting and cancelling alarms at any times, with or without a
\* companion that has announced itself.
NextAlarm ==
    \/ companionStarts
    \/ \E uid \in CallerUids : statsCompanionReadyBegin(uid)
    \/ statsCompanionReadyStep
    \/ \E r \in Monitors, time \in 1..MaxAlarmSecs : setAlarm(r, time)
    \/ \E r \in Monitors : cancelAlarm(r)

SpecAlarm == InitAlarm /\ [][NextAlarm]_vars

\* ------------------------------------------------------- request workloads
\* The configuration id the callers of the admission workload use.
FirstConfig == CHOOSE id \in ConfigIds : \A other \in ConfigIds : id <= other

\* Every binder method called by every kind of caller, on one configuration.
NextAdmission ==
    \/ \E m \in OtherSystemMethods, caller \in UidCallers : systemMethod(m, caller)
    \/ \E caller \in UidCallers, config \in Configurations :
           addConfiguration(caller, FirstConfig, config, AID_SYSTEM)
    \/ \E caller \in UidCallers : removeConfiguration(caller, FirstConfig, AID_SYSTEM)
    \/ \E caller \in UidCallers : setDataFetchOperation(caller, FirstConfig, AID_SYSTEM)
    \/ \E caller \in UidCallers : removeDataFetchOperation(caller, FirstConfig, AID_SYSTEM)
    \/ \E caller \in UidCallers : getData(caller, FirstConfig, AID_SYSTEM)
    \/ \E caller \in UidCallers : getDataFd(caller, FirstConfig, AID_SYSTEM, "open")
    \/ \E caller \in PermissionCallers : registerPullAtomCallback(caller, AID_SHELL)
    \/ \E caller \in PermissionCallers : unregisterPullAtomCallback(caller, AID_SHELL)
    \/ \E caller \in PermissionCallers : registerNativePullAtomCallback(caller)
    \/ \E caller \in PermissionCallers : unregisterNativePullAtomCallback(caller)
    \/ \E caller \in SidCallers, callback \in SubscriptionCallbacks :
           addSubscription(caller, callback)
    \/ \E caller \in SidCallers, callback \in SubscriptionCallbacks :
           removeSubscription(caller, callback)
    \/ \E caller \in SidCallers, callback \in SubscriptionCallbacks :
           flushSubscription(caller, callback)

SpecAdmission == InitAlarm /\ [][NextAdmission]_vars

\* The uids system_server declares its clients to have.
DeclaredUids == {AID_SYSTEM, AID_SHELL}

\* Configurations added, read and removed on behalf of several clients.
NextConfig ==
    \/ \E caller \in UidCallers, key \in ConfigIds, config \in {"valid", "malformed"},
          callingUid \in DeclaredUids : addConfiguration(caller, key, config, callingUid)
    \/ \E caller \in UidCallers, key \in ConfigIds, callingUid \in DeclaredUids :
           removeConfiguration(caller, key, callingUid)
    \/ \E caller \in UidCallers, key \in ConfigIds, callingUid \in DeclaredUids :
           getData(caller, key, callingUid)
    \/ \E key \in mConfigs, data \in ConfigReports : engineCollects(key, data)

SpecConfig == InitAlarm /\ [][NextConfig]_vars

\* One configuration added with bytes of every kind, dumped and removed, the
\* engine collecting in between.
NextAddConfig ==
    \/ \E caller \in UidCallers, config \in Configurations, callingUid \in DeclaredUids :
           addConfiguration(caller, FirstConfig, config, callingUid)
    \/ \E caller \in UidCallers, callingUid \in DeclaredUids :
           removeConfiguration(caller, FirstConfig, callingUid)
    \/ \E caller \in UidCallers, callingUid \in DeclaredUids :
           getData(caller, FirstConfig, callingUid)
    \/ \E key \in mConfigs, data \in ConfigReports : engineCollects(key, data)

SpecAddConfig == InitAlarm /\ [][NextAddConfig]_vars

\* One configuration whose report takes every length, read through both calls.
NextReportFd ==
    \/ \E caller \in UidCallers : addConfiguration(caller, FirstConfig, "valid", AID_SYSTEM)
    \/ \E key \in mConfigs, data \in ReportSizes : engineCollects(key, data)
    \/ \E caller \in UidCallers : getData(caller, FirstConfig, AID_SYSTEM)
    \/ \E caller \in UidCallers, fd \in Descriptors :
           getDataFd(caller, FirstConfig, AID_SYSTEM, fd)

SpecReportFd == InitAlarm /\ [][NextReportFd]_vars

\* The service as constructed, on a build of either kind.
InitShell ==
    /\ InitCore
    /\ InitNoCompanion
    /\ InitProcessor
    /\ mInitEventDelaySecs = MaxInitDelaySecs
    /\ hasEventQueue = FALSE
    /\ readerPc = "none"
    /\ mEngBuild \in BOOLEAN

\* The arguments of the shell workload.
UidTokens == {<<"1", "0", "0", "0">>, <<"2", "0", "0", "0">>}
Name42 == <<"4", "2">>
KeepData == Word("--keep_data")
Proto == Word("--proto")
IncludeCurrentBucket == Word("--include_current_bucket")
DumpReport == Word("dump-report")

\* dump-report with every subset of its flags in the order of the usage line,
\* with flags in other orders and places, and with a word that only begins
\* like a flag.
DumpCommands ==
    {<<DumpReport, Name42, KeepData, Proto>>, <<DumpReport, Name42, Proto>>,
     <<DumpReport, Name42, KeepData>>, <<DumpReport, Name42>>,
     <<DumpReport, Name42, Proto, KeepData>>, <<DumpReport, KeepData, Name42, Proto>>,
     <<DumpReport, Name42, KeepData, IncludeCurrentBucket>>,
     <<DumpReport, Name42, IncludeCurrentBucket>>,
     <<DumpReport, Name42, IncludeCurrentBucket, Proto>>,
     <<DumpReport, Name42, KeepData, IncludeCurrentBucket, Proto>>,
     <<DumpReport, Name42, Proto, IncludeCurrentBucket>>,
     <<DumpReport, Name42, <<"--proto", "x">>>>}
        \cup {<<DumpReport, uid, Name42, KeepData, Proto>> : uid \in UidTokens}
        \cup {<<DumpReport, uid, Name42, Proto>> : uid \in UidTokens}
        \cup {<<DumpReport, uid, Name42, KeepData, IncludeCurrentBucket, Proto>> :
                  uid \in UidTokens}

ConfigCommands ==
    {<<Word("config"), Word("update"), Name42>>, <<Word("config"), Word("remove"), Name42>>,
     <<Word("config"), Word("remove")>>,
     <<Word("config"), Word("update"), Word("uid"), Name42>>}
        \cup {<<Word("config"), Word("update"), uid, Name42>> : uid \in UidTokens}
        \cup {<<Word("config"), Word("remove"), uid, Name42>> : uid \in UidTokens}

OtherCommands ==
    {<<Word("send-broadcast"), Name42>>, <<Word("send-active-configs")>>,
     <<Word("log-app-breadcrumb"), <<"1">>, <<"1">>>>, <<Word("meminfo")>>,
     <<Word("print-stats")>>}
        \cup {<<Word("send-broadcast"), uid, Name42>> : uid \in UidTokens}
        \cup {<<Word("send-active-configs"), <<"--uid=">> \o uid>> : uid \in UidTokens}
        \cup {<<Word("log-app-breadcrumb"), uid, <<"1">>, <<"1">>>> : uid \in UidTokens}

\* Shell commands from every uid, the engine collecting data in between.
NextShell ==
    \/ \E caller \in UidCallers, args \in ConfigCommands, in \in {"valid", "malformed"} :
           handleShellCommand(caller, args, in)
    \/ \E caller \in UidCallers, args \in DumpCommands \cup OtherCommands :
           handleShellCommand(caller, args, "empty")
    \/ \E key \in mConfigs, data \in ConfigReports : engineCollects(key, data)

SpecShell == InitShell /\ [][NextShell]_vars

\* dump-report alone: configurations are installed, the engine collects, and
\* every uid dumps with flags.
NextFlags ==
    \/ \E caller \in UidCallers, uid \in UidTokens :
           handleShellCommand(caller, <<Word("config"), Word("update"), uid, Name42>>, "valid")
    \/ \E caller \in UidCallers, args \in DumpCommands :
           handleShellCommand(caller, args, "empty")
    \/ \E key \in mConfigs, data \in ConfigReports : engineCollects(key, data)

SpecFlags == InitShell /\ [][NextFlags]_vars

\* The service booting with a positive delay while the companion comes and goes.
InitBootDeath ==
    /\ InitCommon
    /\ InitNoCompanion
    /\ InitProcessor
    /\ mInitEventDelaySecs = MaxInitDelaySecs
    /\ hasEventQueue = FALSE
    /\ readerPc = "none"

\* The binder thread on which the calls of the boot arrive.
BootThread == CHOOSE t \in Threads : \A u \in Threads : t <= u

\* system_server marks the preconditions and shuts down on one thread; its
\* companion announces itself, dies once between two notifications, and is
\* started again.
NextBootDeath ==
    \/ bootCompleted(BootThread, AID_SYSTEM)
    \/ allPullersFromBootRegistered(BootThread, AID_SYSTEM)
    \/ \E payload \in UidPayloads : informAllUidData(BootThread, AID_SYSTEM, payload)
    \/ informDeviceShutdown(BootThread, AID_SYSTEM)
    \/ markComplete(BootThread)
    \/ scheduleTrigger(BootThread)
    \/ Terminate(BootThread)
    \/ Destructor(BootThread)
    \/ notifyAll(BootThread)
    \/ onStatsdInitCompletedBegin
    \/ waitOneSecond
    \/ waitWakeUp
    \/ waitTimeout
    \/ notifyProcessor
    \/ companionStarts
    \/ companionDies /\ readyPc = 0 /\ diedPc = 0 /\ restarts = 0
    \/ statsCompanionReadyBegin(AID_SYSTEM) /\ diedPc = 0 /\ companionLive # 0
    \/ statsCompanionReadyStep
    \/ \E dead \in 1..MaxCompanions : statsCompanionServiceDied(dead) /\ readyPc = 0
    \/ statsCompanionServiceDiedStep

SpecBootDeath == InitBootDeath /\ [][NextBootDeath]_vars

\* The service with threads making first-use requests at the same time.
InitSubscriber ==
    /\ InitCommon
    /\ InitNoCompanion
    /\ InitProcessor
    /\ mInitEventDelaySecs = MaxInitDelaySecs
    /\ hasEventQueue = FALSE
    /\ readerPc = "none"

NextSubscriber ==
    \/ \E t \in Threads, request \in FirstUseRequests, caller \in SidCallers :
           firstUse(t, request, caller)
    \/ \E t \in Threads : lockShellSubscriber(t)
    \/ \E t \in Threads : testShellSubscriber(t)
    \/ \E t \in Threads : newShellSubscriber(t)
    \/ \E t \in Threads : unlockShellSubscriber(t)
    \/ \E t \in Threads : startNewSubscription(t)

SpecSubscriber == InitSubscriber /\ [][NextSubscriber]_vars

\* Invocations with a wrong number of arguments, an unknown subcommand, or a word
\* where a number is expected.
MalformedCommands ==
    {<<Word("config")>>, <<Word("config"), Word("update")>>,
     <<Word("config"), Word("list"), Name42>>,
     <<Word("config"), Word("update"), Word("name")>>,
     <<Word("config"), Word("update"), Word("uid"), Name42>>,
     <<Word("config"), Word("update"), <<"2", "0", "0", "0">>, Name42, Word("extra")>>,
     <<Word("config"), Word("remove"), Word("name")>>,
     <<Word("config"), Word("remove"), <<"1", "0", "0", "0">>, <<"0">>>>,
     <<DumpReport>>, <<DumpReport, Word("name"), Proto>>,
     <<DumpReport, Word("uid"), Name42>>,
     <<Word("send-broadcast")>>, <<Word("send-broadcast"), Word("name")>>,
     <<Word("send-broadcast"), Word("uid"), Name42>>,
     <<Word("log-app-breadcrumb"), <<"1">>>>,
     <<Word("log-app-breadcrumb"), Word("label"), <<"1">>>>,
     <<Word("send-active-configs"), <<"--uid=", "x">>>>,
     <<Word("no-such-command")>>, <<Word("no-such-command"), Name42>>}

\* Configuration 0 is installed, the engine collects, and the malformed
\* invocations arrive beside two well-formed ones.
NextMalformed ==
    \/ \E caller \in UidCallers :
           handleShellCommand(caller, <<Word("config"), Word("update"), <<"0">>>>, "valid")
    \/ \E caller \in UidCallers,
          args \in MalformedCommands \cup {<<Word("print-stats")>>, <<DumpReport, <<"0">>>>} :
           handleShellCommand(caller, args, "valid")
    \/ \E key \in mConfigs, data \in ConfigReports : engineCollects(key, data)

SpecMalformed == InitShell /\ [][NextMalformed]_vars

\* The trigger alone, driven directly by clients of its interface; nothing
\* requests termination.
NextTrigger ==
    \/ \E t \in Threads, tok \in ClientTokens : markCompleteByClient(t, tok)
    \/ \E t \in Threads : markComplete(t)
    \/ \E t \in Threads : scheduleTrigger(t)
    \/ onStatsdInitCompletedBegin
    \/ waitOneSecond
    \/ waitTimeout
    \/ notifyProcessor

SpecTrigger == InitBoot /\ [][NextTrigger]_vars

\* ------------------------------------------------------------------ claims
MarkingMethods == {m.op : m \in marked}
BootMethods == {"bootCompleted", "informAllUidData", "allPullersFromBootRegistered"}
NamedTags == {kBootCompleteTag, kUidMapReceivedTag, kAllPullersRegisteredTag}

\* C1: over all interleavings of repeated bootCompleted, informAllUidData and
\* allPullersFromBootRegistered calls, the completion action is never started more
\* than once, and it has been started once all three methods have finished marking.
C1_StartedExactlyOnce ==
    /\ initStarted <= 1
    /\ (BootMethods \subseteq MarkingMethods /\ \A t \in Threads : thr[t].pc # "trigger")
           => initStarted = 1

\* C1 witness: all three marked, one of them twice, and the action started once.
C1_Witness ==
    /\ BootMethods \subseteq MarkingMethods
    /\ initStarted = 1
    /\ fired
    /\ \E t \in Threads : thr[t].pc = "markComplete"

\* C2: the completion action has not been started unless bootCompleted,
\* informAllUidData and allPullersFromBootRegistered have each marked their token.
C2_NotStartedBeforeAllThree ==
    /\ initStarted > 0 => BootMethods \subseteq MarkingMethods
    /\ fired => satisfied = NamedTags

\* C2 witness: two of the three marked, repeatedly, and nothing started.
C2_Witness ==
    /\ Cardinality(MarkingMethods) = 2
    /\ Cardinality(satisfied) = 2
    /\ initStarted = 0
    /\ \E t \in Threads : thr[t].pc = "markComplete" /\ thr[t].tok \in satisfied

\* C3: markComplete of a token outside the required set changes neither the
\* satisfied set nor the fired flag, starts nothing and returns normally.
C3_UnknownTokenIsNoOp ==
    [][\A t \in Threads :
          (thr[t].pc = "markComplete" /\ thr[t].tok \notin NamedTags /\ thr'[t] # thr[t])
              => /\ satisfied' = satisfied
                 /\ fired' = fired
                 /\ initStarted' = initStarted
                 /\ initPc' = initPc
                 /\ thr'[t] = Idle("ok")]_vars

\* C3 witness: an unknown token was marked while two required ones were satisfied.
C3_Witness ==
    /\ \E m \in marked : m.tok \notin NamedTags
    /\ Cardinality(satisfied) = 2
    /\ ~fired

\* C4: with a positive delay, a termination request made before the delay has
\* elapsed means mProcessor->onStatsdInitCompleted is never invoked.
C4_EarlyCancelSkipsCallback ==
    (mInitEventDelaySecs > 0 /\ cancelEarly) => processorInitCalls = 0

\* C4 witness: the gate fired, the handler was waiting when termination was
\* requested, and it returned without notifying the engine.
C4_Witness ==
    /\ mInitEventDelaySecs > 0
    /\ cancelEarly
    /\ pendingAtShutdown
    /\ initPc = "skipped"
    /\ processorInitCalls = 0

\* C5: with a positive delay and the callback pending when a shutdown path first
\* requests termination, mProcessor->onStatsdInitCompleted is not invoked after
\* the termination flag was set.
C5_NoCallbackAfterShutdown ==
    (mInitEventDelaySecs > 0 /\ pendingAtShutdown) => ~notifiedAfterShutdown

\* C6: no thread calling bootCompleted, informAllUidData or
\* allPullersFromBootRegistered ever runs or waits for onStatsdInitCompleted: the
\* callback runs on its own execution context and the call returns.
C6_CallerNeverBlocked ==
    /\ \A t \in Threads : thr[t].pc # "inCallback"
    /\ initRunner.kind \in {"none", "dedicated"}

\* C6 witness: every caller has returned while the handler still waits.
C6_Witness ==
    /\ initPc = "waiting"
    /\ waitedSecs < mInitEventDelaySecs
    /\ \A t \in Threads : thr[t].pc = "idle"
    /\ \E t \in Threads : thr[t].st = "ok"

Count(e, seq) == Cardinality({i \in 1..Len(seq) : seq[i] = e})
QueuedIds == {queue[i] : i \in 1..Len(queue)}
HeldIds == {event[i] : i \in 1..Len(event)}
Joining == \E t \in Threads : thr[t].pc = "join"

\* C7: once stopReadingLogs has run (stop flag set, sentinel pushed) and the
\* destructor waits in join, the logs reader thread leaves its loop and the join
\* returns, whether or not real events were still queued.
C7_ReaderTerminatesAfterStop ==
    Joining ~> (readerPc = "exited" /\ ~Joining)

\* C7 witness: the join returned although the queue never held a real event.
C7_Witness ==
    /\ destroyed
    /\ readerPc = "exited"
    /\ \A t \in Threads : thr[t].pc = "idle"
    /\ enqueued = {}
    /\ discarded = {Sentinel}

\* C8: the sentinel is never passed to mProcessor->OnLogEvent nor to the shell
\* subscriber.
C8_SentinelNeverDispatched ==
    /\ Count(Sentinel, engineLog) = 0
    /\ Count(Sentinel, subscriberLog) = 0
    /\ readerPc \in {"OnLogEvent", "inProcessor", "subscriber"} => event # <<Sentinel>>

\* C8 witness: the reader popped the sentinel, with a subscriber active, and left.
C8_Witness ==
    /\ Sentinel \in discarded
    /\ readerPc = "exited"
    /\ mShellSubscriber # "null"
    /\ Len(engineLog) > 0

\* C9 as stated: when the reader has exited, every event the queue accepted has
\* been passed to the engine exactly once.
C9_EveryEventDispatchedExactlyOnce ==
    readerPc = "exited" => \A e \in enqueued : Count(e, engineLog) = 1

\* C9 amended: an accepted event is passed to the engine at most once; it is in
\* exactly one place (queued, held by the reader, dispatched, or dropped), and
\* only an event popped after the stop request is dropped.
C9_DispatchedAtMostOnce ==
    /\ \A e \in enqueued : Count(e, engineLog) <= 1
    /\ \A e \in enqueued :
          Cardinality({k \in {"queued", "held", "dispatched", "dropped"} :
                         \/ k = "queued" /\ e \in QueuedIds
                         \/ k = "held" /\ e \in HeldIds /\ readerPc \in {"checkStop", "OnLogEvent"}
                         \/ k = "dispatched" /\ Count(e, engineLog) > 0
                         \/ k = "dropped" /\ e \in discarded}) = 1
    /\ discarded # {} => mIsStopRequested

\* C9 witness: one event dispatched, one dropped after the stop request, one left
\* in the queue of the exited reader.
C9_Witness ==
    /\ readerPc = "exited"
    /\ \E e \in enqueued : Count(e, engineLog) = 1
    /\ \E e \in enqueued : e \in discarded
    /\ \E e \in enqueued : e \in QueuedIds

\* C10: the engine receives events in the order they were pushed (ids grow in
\* push order), and a call starts only after the previous one has returned.
C10_EngineSeesArrivalOrder ==
    /\ \A i, j \in 1..Len(engineLog) : i < j => engineLog[i] < engineLog[j]
    /\ engineReturned \in {Len(engineLog), Len(engineLog) - 1}
    /\ readerPc = "OnLogEvent" => engineReturned = Len(engineLog)

\* C10 witness: two events went through the engine and another is queued.
C10_Witness ==
    /\ Len(engineLog) >= 2
    /\ engineReturned = Len(engineLog)
    /\ Len(queue) > 0

Quiescent == readyPc = 0 /\ diedPc = 0

\* The handle a completed notification leaves behind when it runs alone; readyRef
\* is the reference the last statsCompanionReady obtained.
Written(n) == IF n.kind = "ready" THEN readyRef ELSE 0

\* The recovery has run to its end, with an engine present.
RecoveryDone == diedPc = 0 /\ diedTrace # <<>> /\ hasProcessor

\* C11: every event the ingestion thread or OnLogEvent hands to the subscriber has
\* been handed to the engine before, and that engine call has returned.
C11_SubscriberAfterEngineReturned ==
    \A i \in 1..Len(subscriberLog) :
        /\ subscriberLog[i] \in engineDone
        /\ \E j \in 1..Len(engineLog) : engineLog[j] = subscriberLog[i]

\* C11 witness: the subscriber has seen an event of the reader and one of OnLogEvent.
C11_Witness ==
    /\ \E i \in 1..Len(subscriberLog) : subscriberLog[i] \in 1..MaxEvents
    /\ \E i \in 1..Len(subscriberLog), t \in Threads : subscriberLog[i] = TestEvent(t)

\* C12: once a death notification has been processed to its end with no
\* statsCompanionReady running beside it or after it, the anomaly monitor, the
\* periodic monitor and the puller manager all hold a null handle, engine or not.
C12_AllHandlesNullAfterDeath ==
    (/\ lastNotif # <<>>
     /\ lastNotif[1].kind = "died"
     /\ ~lastNotif[1].overlapped
     /\ readyPc = 0)
        => \A h \in Holders : handle[h] = 0

\* C12 witness: without an engine, a death processed alone after a completed ready.
C12_Witness ==
    /\ ~hasProcessor
    /\ Len(lastNotif) = 2
    /\ lastNotif[1].kind = "died" /\ ~lastNotif[1].overlapped
    /\ lastNotif[2].kind = "ready"
    /\ readyPc = 0

\* C13: when a death notification and then a successful statsCompanionReady have
\* been processed, one after the other, both alarm monitors hold the reference that
\* statsCompanionReady obtained, which is neither null nor the dead companion's.
C13_RelinkAfterDeath ==
    (/\ Len(lastNotif) = 2
     /\ lastNotif[1].kind = "ready" /\ ~lastNotif[1].overlapped
     /\ lastNotif[2].kind = "died"
     /\ Quiescent)
        => /\ handle["anomaly"] = readyRef
           /\ handle["periodic"] = readyRef
           /\ readyRef # 0
           /\ readyRef # snapshot.dead

\* C13 witness: the death of a companion whose handle was held, then a ready.
C13_Witness ==
    /\ Len(lastNotif) = 2
    /\ lastNotif[1].kind = "ready" /\ ~lastNotif[1].overlapped
    /\ lastNotif[2].kind = "died" /\ ~lastNotif[2].overlapped
    /\ Quiescent
    /\ restarts = 1
    /\ handle["periodic"] = companionLive

\* C14: when a statsCompanionReady and a death notification have run concurrently
\* and both have completed, all three holders hold the same handle, the one written
\* by one of the two notifications.
C14_ConcurrentNotificationsAgree ==
    (/\ Len(lastNotif) = 2
     /\ lastNotif[1].kind # lastNotif[2].kind
     /\ lastNotif[1].overlapped /\ lastNotif[2].overlapped
     /\ Quiescent)
        => \E n \in {lastNotif[1], lastNotif[2]} : \A h \in Holders : handle[h] = Written(n)

\* C15: while statsCompanionServiceDiedImpl is running, up to its last clearing
\* step, no holder's handle is set to a new companion reference.
C15_NoRelinkDuringRecovery ==
    [][diedPc # 0 => \A h \in Holders : handle'[h] \in {handle[h], 0}]_vars

RecoveryRank(stmt) ==
    CASE stmt = "noteSystemServerRestart" -> 1
      [] stmt = "onStatsdInitCompletedHandlerTermination" -> 2
      [] stmt \in {"WriteActiveConfigsToProtoOutputStream", "WriteMetadataToProto"} -> 3
      [] stmt = "WriteDataToDisk" -> 4
      [] stmt = "resetConfigs" -> 5
      [] stmt \in {"ParseFromString", "SetConfigsActiveState", "SetMetadataState"} -> 6
      [] OTHER -> 7

\* C17: with an engine present the recovery runs its steps in the order restart
\* noted, boot completion cancelled, the two snapshots, disk write with the
\* companion-died reason, resetConfigs, snapshots re-applied, handles cleared; a
\* completed recovery has run every one of them.
C17_RecoveryOrder ==
    hasProcessor =>
        /\ \A i, j \in 1..Len(diedTrace) :
               i < j => RecoveryRank(diedTrace[i]) <= RecoveryRank(diedTrace[j])
        /\ RecoveryDone =>
               /\ {RecoveryRank(diedTrace[i]) : i \in 1..Len(diedTrace)} = 1..7
               /\ \A s \in {"WriteActiveConfigsToProtoOutputStream", "WriteMetadataToProto",
                             "SetConfigsActiveState", "SetMetadataState"} :
                      \E i \in 1..Len(diedTrace) : diedTrace[i] = s
               /\ lastDiskWrite = "STATSCOMPANION_DIED"

\* C17 witness: a recovery with an engine has cleared the last handle.
C17_Witness ==
    /\ RecoveryDone
    /\ diedTrace[Len(diedTrace)] = "clearPuller"
    /\ snapshot.active # {}

\* C18 as stated: both snapshots are re-applied from the parsed serialised form and
\* the engine's state after the recovery is the state snapshotted before the reset.
C18_BothSnapshotsRoundTrip ==
    RecoveryDone =>
        /\ appliedFrom = [active |-> "parsed", metadata |-> "parsed"]
        /\ activeConfigs = snapshot.active
        /\ metadataState = snapshot.metadata

\* C18: the active-configuration snapshot is re-applied from the parsed serialised
\* form, the metadata snapshot from the message it was written to, and the engine's
\* state after the recovery is the state snapshotted before the reset.
C18_SnapshotsReapplied ==
    RecoveryDone =>
        /\ appliedFrom = [active |-> "parsed", metadata |-> "message"]
        /\ activeConfigs = snapshot.active
        /\ metadataState = snapshot.metadata

\* C18 witness: a completed recovery whose snapshots were not empty.
C18_Witness ==
    /\ RecoveryDone
    /\ snapshot.active = ConfigIds
    /\ snapshot.metadata # {}
    /\ activeConfigs = ConfigIds

\* C19: a setAlarm invokes the monitor's set callback only if no alarm is registered
\* or its time differs from the registered time by at least the 5-second minimum.
C19_NoCallbackWithinMinDelta ==
    [][\A r \in Monitors :
          updateCalls'[r] # updateCalls[r] =>
              \/ registered[r] = 0
              \/ Distance(registered'[r], registered[r])
                     >= MIN_DIFF_TO_UPDATE_REGISTERED_ALARM_SECS]_vars

\* C19 witness: a setAlarm was ignored, and one replaced a registered time.
C19_Witness ==
    /\ alarmCalls.ignored > 0
    /\ \E r \in Monitors : updateCalls[r] = 2 /\ alarmCalls = [made |-> 3, ignored |-> 1]

\* C20 as stated: every setAlarm that invokes the set callback increments the
\* monitor's change counter, whatever the handle.
C20_CounterAlwaysIncremented ==
    [][\A r \in Monitors :
          updateCalls'[r] # updateCalls[r] => changed'[r] = changed[r] + 1]_vars

\* C20: a setAlarm that invokes the set callback increments the anomaly monitor's
\* change counter whatever the handle, and the periodic monitor's exactly if its
\* handle is not null.
C20_CounterIncrementedWhenReached ==
    [][\A r \in Monitors :
          updateCalls'[r] # updateCalls[r] =>
              changed'[r] = changed[r] + (IF r = "anomaly" \/ handle[r] # 0 THEN 1 ELSE 0)]_vars

\* C20 witness: with no companion ever started, the anomaly counter has counted a
\* set callback and the periodic one has not.
C20_Witness ==
    /\ companionsStarted = 0
    /\ updateCalls["anomaly"] > 0 /\ changed["anomaly"] > 0
    /\ updateCalls["periodic"] > 0 /\ changed["periodic"] = 0

\* C21: a statsCompanionReady that re-links the handles after a death forwards no
\* alarm set or cancel to the companion: the companion is called only by a step in
\* which the engine calls setAlarm or cancelAlarm, and a step that changes a handle
\* (death or re-link) leaves the monitors' registered times and counters alone.
C21_RelinkForwardsNothing ==
    [][/\ (companionCalls' # companionCalls => alarmCalls'.made # alarmCalls.made)
       /\ (handle' # handle =>
              UNCHANGED <<registered, changed, updateCalls, companionCalls, lastCallback>>)]_vars

\* A periodic alarm set through companion 1 is still registered after companion 1
\* died and companion 2 was linked, and the last forwarded call went to companion 1.
C21_Witness ==
    /\ Quiescent
    /\ Len(lastNotif) = 2
    /\ lastNotif[1].kind = "ready"
    /\ lastNotif[2].kind = "died"
    /\ handle["periodic"] = 2
    /\ registered["periodic"] # 0
    /\ lastCallback.r = "periodic"
    /\ lastCallback.sc = 1
    /\ lastCallback.forwarded

\* The elements of a sequence.
Range(s) == {s[i] : i \in 1..Len(s)}

\* Every variable a request may change, apart from the record of the last call.
servedState == <<mConfigs, reports, receivers, pullers, subscriptions, bootVars, logVars,
                 companionVars, subscriberVars, thr, destroyed, mEngBuild>>

\* A step that turns the request away: a security error, no body, no collaborator
\* called, nothing changed.
TurnedAway(status) ==
    /\ lastCall'.status = status
    /\ ~lastCall'.body
    /\ lastCall'.effect = "none"
    /\ lastCall'.keys = {}
    /\ lastCall'.dump = {}
    /\ lastCall'.out = <<>>
    /\ UNCHANGED servedState

\* The methods that begin with ENFORCE_UID(AID_SYSTEM).
SystemMethods ==
    OtherSystemMethods \cup
        {"addConfiguration", "removeConfiguration", "getData", "getDataFd",
         "setDataFetchOperation", "removeDataFetchOperation", "registerPullAtomCallback",
         "unregisterPullAtomCallback"}

\* C22: a call of a method that requires the system identity, made by a uid that is
\* neither system nor root, is answered with a security error and has no effect: no
\* configuration, receiver, precondition token, companion handle or engine state
\* changes and no collaborator is called.
C22_NonSystemCallerTurnedAway ==
    [][(/\ lastCall' # lastCall
        /\ lastCall'.method \in SystemMethods
        /\ lastCall'.caller.uid \notin {AID_SYSTEM, AID_ROOT})
       => TurnedAway("EX_SECURITY")]_vars

\* The shell uid was refused addConfiguration while a configuration with a report
\* and a receiver existed.
C22_Witness ==
    /\ lastCall.method = "addConfiguration"
    /\ lastCall.caller.uid = AID_SHELL
    /\ lastCall.status = "EX_SECURITY"
    /\ mConfigs # {}
    /\ reports # {}
    /\ receivers # {}

NativePullAtomMethods == {"registerNativePullAtomCallback", "unregisterNativePullAtomCallback"}

\* C23 as stated: each of the four pull callback methods is admitted exactly when
\* the caller holds the pull-registration permission.
C23_AdmittedByPermission ==
    [][(lastCall' # lastCall /\ lastCall'.method \in PullAtomMethods)
       => (lastCall'.body <=> kPermissionRegisterPullAtom \in lastCall'.caller.perms)]_vars

\* C23: the two native pull callback methods are admitted exactly when the caller
\* holds the pull-registration permission, and register for the calling uid; the two
\* others are admitted exactly when the caller is system or root, whatever it holds.
\* A caller that is not admitted gets a security error and the puller manager is not
\* called.
C23_NativeByPermissionOthersByUid ==
    [][(lastCall' # lastCall /\ lastCall'.method \in PullAtomMethods)
       => /\ lastCall'.body <=>
                 IF lastCall'.method \in NativePullAtomMethods
                 THEN kPermissionRegisterPullAtom \in lastCall'.caller.perms
                 ELSE lastCall'.caller.uid \in {AID_SYSTEM, AID_ROOT}
          /\ lastCall'.body =>
                 /\ lastCall'.status = "ok"
                 /\ lastCall'.actedFor = IF lastCall'.method \in NativePullAtomMethods
                                         THEN {lastCall'.caller.uid}
                                         ELSE lastCall'.declared
          /\ ~lastCall'.body => TurnedAway("EX_SECURITY")]_vars

\* The shell uid, holding the permission, registered a native callback for itself.
C23_Witness ==
    /\ lastCall.method = "registerNativePullAtomCallback"
    /\ lastCall.caller.uid = AID_SHELL
    /\ lastCall.caller.perms = {kPermissionRegisterPullAtom}
    /\ lastCall.status = "ok"
    /\ AID_SHELL \in pullers

\* C24: a subscription method is admitted exactly when the caller's security label
\* is present and equal to the trusted tracing label, or the caller is root; every
\* other caller, one without a label or the system uid under another label among
\* them, gets a security error and nothing is created, removed or flushed.
C24_SubscriptionsByLabel ==
    [][(lastCall' # lastCall /\ lastCall'.method \in SubscriptionMethods)
       => /\ lastCall'.body <=>
                 \/ lastCall'.caller.uid = AID_ROOT
                 \/ /\ lastCall'.caller.sid # NullSid
                    /\ lastCall'.caller.sid = <<"u", "r", "traced_probes", "s0">>
          /\ lastCall'.body => lastCall'.status = "ok"
          /\ ~lastCall'.body => TurnedAway("EX_SECURITY")]_vars

\* The system uid under a label that only begins with the trusted one was refused
\* removeSubscription while a subscription existed.
C24_Witness ==
    /\ lastCall.method = "removeSubscription"
    /\ lastCall.caller.uid = AID_SYSTEM
    /\ lastCall.caller.sid = <<"u", "r", "traced_probes", "s0", "c512">>
    /\ lastCall.status = "EX_SECURITY"
    /\ subscriptions # {}

\* The rule of impersonation, for a caller and the uid it wants to act for.
Impersonates(callingUid, target) ==
    \/ mEngBuild
    \/ callingUid = target
    \/ callingUid = AID_ROOT /\ target = AID_SHELL

UidCommands == {Word("config"), DumpReport, Word("send-broadcast"),
                Word("send-active-configs"), Word("log-app-breadcrumb")}

C26_ShellOnlyRootAndShell ==
    [][(/\ lastCall' # lastCall
        /\ lastCall'.method = "handleShellCommand"
        /\ lastCall'.caller.uid \notin {AID_ROOT, AID_SHELL})
       => TurnedAway("PERMISSION_DENIED")]_vars

\* The system uid was refused a dump-report of a configuration with a report.
C26_Witness ==
    /\ lastCall.method = "handleShellCommand"
    /\ lastCall.caller.uid = AID_SYSTEM
    /\ lastCall.args = <<DumpReport, <<"2", "0", "0", "0">>, Name42, Proto>>
    /\ lastCall.status = "PERMISSION_DENIED"
    /\ ReportOf(ConfigKey(AID_SHELL, 42)) # Empty

\* C27: a method that carries a uid declared by its caller builds its ConfigKey from
\* the uid the transport reports, so that the key does not depend on the declared uid.
C27_KeyFromTransportUid ==
    (/\ lastCall.method \in {"addConfiguration", "removeConfiguration", "getData"}
     /\ lastCall.body)
    => \A key \in lastCall.keys : key.uid = lastCall.caller.uid

\* The bytes of a length below 2^31, the most significant first.
BigEndian(data) ==
    <<Byte(data.hi \div 256), Byte(data.hi % 256), Byte(data.lo \div 256), Byte(data.lo % 256)>>

\* The report a call has just dumped, as the engine held it before the call.
DumpedReport == ReportOf((CHOOSE d \in lastCall'.dump : TRUE).key)

\* A getDataFd that was admitted and given a descriptor that can be written.
WritesReport ==
    /\ lastCall' # lastCall
    /\ lastCall'.method = "getDataFd"
    /\ lastCall'.body
    /\ lastCall'.args = Word("open")

\* C28 as stated: getDataFd succeeds for every report whose length n fits in 32 bits,
\* the largest such signed length 2^31 - 1 included, and writes the four bytes of n,
\* the most significant first, and then the n bytes of the report.
C28_SucceedsUpToInt32Max ==
    [][(WritesReport /\ (DumpedReport = Int32Max \/ ~AtLeast(DumpedReport, Int32Max)))
       => /\ lastCall'.status = "ok"
          /\ lastCall'.out = BigEndian(DumpedReport) \o Bytes(DumpedReport)]_vars

\* C28: getDataFd succeeds exactly for a report of n < 2^31 - 1 bytes, writing the
\* four bytes of n, the most significant first, and then the n bytes getData would
\* have returned; for n >= 2^31 - 1 it fails with illegal state and writes nothing.
C28_SucceedsBelowInt32Max ==
    [][WritesReport
       => IF ~AtLeast(DumpedReport, Size(32767, 65535))
          THEN /\ lastCall'.status = "ok"
               /\ lastCall'.out = BigEndian(DumpedReport) \o Bytes(DumpedReport)
               /\ DumpedReport = Size(0, 258)
                      => SubSeq(lastCall'.out, 1, 4) = <<Byte(0), Byte(0), Byte(1), Byte(2)>>
          ELSE /\ lastCall'.status = "EX_ILLEGAL_STATE"
               /\ lastCall'.out = <<>>]_vars

\* A report of 258 bytes was written: 0, 0, 1, 2 and the report.
C28_Witness ==
    /\ lastCall.method = "getDataFd"
    /\ lastCall.status = "ok"
    /\ lastCall.out = <<Byte(0), Byte(0), Byte(1), Byte(2), Block(Size(0, 258))>>

\* C29: getData erases what it returns. A configuration that addConfiguration has
\* just added has a report that is not empty; every admitted getData returns the
\* report the engine holds, asks the engine to erase it and to leave out the bucket
\* in progress, and leaves the report empty, so that a second getData right after
\* the first returns an empty report.
C29_EraseOnRead ==
    /\ []((lastCall.method = "addConfiguration" /\ lastCall.status = "ok")
          => \A key \in lastCall.keys : ReportOf(key) # Empty)
    /\ [][(lastCall' # lastCall /\ lastCall'.method = "getData" /\ lastCall'.body)
          => /\ lastCall'.status = "ok"
             /\ \A d \in lastCall'.dump :
                    /\ d.eraseData
                    /\ ~d.includeCurrentBucket
                    /\ lastCall'.out = Bytes(ReportOf(d.key))
                    /\ \A r \in reports' : r.key # d.key
             /\ lastCall'.dump # {}]_vars

\* getData returned an empty report for a configuration that exists: the report
\* was read before.
C29_Witness ==
    /\ lastCall.method = "getData"
    /\ lastCall.status = "ok"
    /\ lastCall.out = <<>>
    /\ lastCall.keys \subseteq mConfigs
    /\ \A key \in lastCall.keys : ReportOf(key) = Empty

\* C30: a shell dump-report with --keep_data does not erase: it leaves the reports
\* as they are, so that dump-report 42 --keep_data --proto prints the bytes the
\* next dump-report 42 --proto prints, and repeating it changes nothing. A
\* dump-report without --keep_data leaves the report it dumped empty. With --proto
\* the bytes printed are the report.
C30_KeepDataKeepsReport ==
    [][(/\ lastCall' # lastCall
        /\ lastCall'.method = "handleShellCommand"
        /\ lastCall'.body
        /\ lastCall'.args[1] = DumpReport)
       => /\ KeepData \in Range(lastCall'.args) => reports' = reports
          /\ \A d \in lastCall'.dump :
                 /\ lastCall'.args[Len(lastCall'.args)] = Proto
                        => lastCall'.out = Bytes(ReportOf(d.key))
                 /\ KeepData \notin Range(lastCall'.args)
                        => \A r \in reports' : r.key # d.key]_vars

\* dump-report 42 --keep_data --proto printed a report that the engine still holds.
C30_Witness ==
    /\ lastCall.method = "handleShellCommand"
    /\ lastCall.args = <<DumpReport, Name42, KeepData, Proto>>
    /\ lastCall.status = "OK"
    /\ lastCall.out # <<>>
    /\ lastCall.out = Bytes(ReportOf(ConfigKey(lastCall.caller.uid, 42)))

\* The flags of dump-report.
DumpFlagWords == {KeepData, IncludeCurrentBucket, Proto}

\* The number of flags that end the first n arguments.
RECURSIVE FlagCount(_, _)
FlagCount(args, n) ==
    IF n > 0 /\ args[n] \in DumpFlagWords THEN 1 + FlagCount(args, n - 1) ELSE 0

\* The flags given after the positional arguments: the longest run of flags
\* that ends the arguments.
FlagsGiven(args) == SubSeq(args, Len(args) - FlagCount(args, Len(args)) + 1, Len(args))

\* The arguments before them.
Positionals(args) == SubSeq(args, 1, Len(args) - FlagCount(args, Len(args)))

\* Every flag at most once.
EachOnce(flags) == \A i, j \in 1..Len(flags) : i # j => flags[i] # flags[j]

\* The place of a flag in the usage line.
UsagePlace(w) == IF w = KeepData THEN 1 ELSE IF w = IncludeCurrentBucket THEN 2 ELSE 3

\* The flags follow one another as in the usage line:
\* [--keep_data] [--include_current_bucket] [--proto].
InUsageOrder(flags) ==
    \A i, j \in 1..Len(flags) : i < j => UsagePlace(flags[i]) < UsagePlace(flags[j])

\* The step served a dump-report with one or two positional arguments followed
\* by a subset of the flags.
DumpWithFlags ==
    /\ lastCall' # lastCall
    /\ lastCall'.method = "handleShellCommand"
    /\ lastCall'.body
    /\ lastCall'.args[1] = DumpReport
    /\ Len(lastCall'.args) - FlagCount(lastCall'.args, Len(lastCall'.args)) \in {2, 3}
    /\ EachOnce(FlagsGiven(lastCall'.args))

\* The settings are those of the flags given, and the positional arguments were
\* parsed as they are without any flag.
FlagsHonoured ==
    LET call == lastCall'
        given == Range(FlagsGiven(call.args))
        positionals == Positionals(call.args)
        plain == cmd_dump_report(call.caller.uid, positionals)
    IN  /\ call.status = plain.status
        /\ call.keys = plain.keys
        /\ call.actedFor = plain.actedFor
        /\ Len(positionals) = 2
               => /\ call.status = "OK"
                  /\ call.keys = {ConfigKey(call.caller.uid, StrToInt64(positionals[2]))}
        /\ \A d \in call.dump :
               /\ d.includeCurrentBucket <=> IncludeCurrentBucket \in given
               /\ d.eraseData <=> KeepData \notin given
               /\ call.out = IF Proto \in given THEN Bytes(ReportOf(d.key)) ELSE <<NonProto>>

\* C31 as stated: for every subset of the flags placed after the positional
\* arguments, in whatever order, the settings match the flags and the positional
\* arguments are parsed as if no flag were present.
C31_FlagsInAnyOrder == [][DumpWithFlags => FlagsHonoured]_vars

\* C31: dump-report looks for --proto, then --include_current_bucket, then
\* --keep_data at the end of its arguments, by exact match, and takes each one
\* found off before the positional arguments are parsed. For every subset of the
\* flags placed after the positional arguments in the order of the usage line
\* (--keep_data, --include_current_bucket, --proto) the settings match the flags
\* given and the positional arguments are parsed as if no flag were present; a
\* word that only begins like a flag is a positional argument.
C31_FlagsInUsageOrder ==
    [][(DumpWithFlags /\ InUsageOrder(FlagsGiven(lastCall'.args))) => FlagsHonoured]_vars

\* dump-report UID 42 --keep_data --include_current_bucket --proto printed the
\* report of the named uid, asked for the current bucket and erased nothing.
C31_Witness ==
    /\ lastCall.method = "handleShellCommand"
    /\ lastCall.args = <<DumpReport, <<"2", "0", "0", "0">>, Name42, KeepData,
                         IncludeCurrentBucket, Proto>>
    /\ lastCall.status = "OK"
    /\ lastCall.keys = {ConfigKey(AID_SHELL, 42)}
    /\ lastCall.out # <<>>
    /\ \E d \in lastCall.dump : d.includeCurrentBucket /\ ~d.eraseData

\* A string that is a number from its first character to its last.
Numeric(s) == s # <<>> /\ strtol(s).endc > Len(s)

\* The subcommands handleShellCommand knows.
Subcommands ==
    {Word("config"), Word("print-uid-map"), DumpReport, Word("pull-source"),
     Word("send-broadcast"), Word("print-stats"), Word("meminfo"), Word("write-to-disk"),
     Word("log-app-breadcrumb"), Word("log-binary-push"), Word("clear-puller-cache"),
     Word("print-logs"), Word("send-active-configs"), Word("data-subscribe")}

\* The number of arguments once the flags of dump-report are set aside.
Counted(args) == IF args[1] = DumpReport THEN Len(Positionals(args)) ELSE Len(args)

\* The number of arguments fits no form of the subcommand.
WrongCount(args) ==
    CASE args[1] = Word("config") ->
             \/ Len(args) < 2
             \/ Len(args) > 4
             \/ Len(args) = 2 /\ args[2] = Word("update")
      [] args[1] \in {DumpReport, Word("send-broadcast")} -> Counted(args) \notin {2, 3}
      [] args[1] = Word("log-app-breadcrumb") -> Len(args) \notin {3, 4}
      [] OTHER -> FALSE

\* The argument in the place of the UID, in a sequence of its own, if the form
\* used has one.
UidArgument(args) ==
    CASE args[1] = Word("config") /\ Len(args) = 4 -> <<args[3]>>
      [] args[1] \in {DumpReport, Word("send-broadcast")} /\ Counted(args) = 3 -> <<args[2]>>
      [] args[1] = Word("log-app-breadcrumb") /\ Len(args) = 4 -> <<args[2]>>
      [] OTHER -> <<>>

\* The argument in the place of the NAME, likewise.
NameArgument(args) ==
    CASE args[1] = Word("config") /\ Len(args) \in {3, 4} -> <<args[Len(args)]>>
      [] args[1] \in {DumpReport, Word("send-broadcast")} /\ Counted(args) \in {2, 3} ->
             <<args[Counted(args)]>>
      [] OTHER -> <<>>

\* The UID argument is not a number, or is a uid the caller may not act for.
RefusedUid(call) ==
    \E s \in Range(UidArgument(call.args)) :
        ~Numeric(s) \/ ~Impersonates(call.caller.uid, strtol(s).value)

\* The step served a shell command.
ShellStep ==
    /\ lastCall' # lastCall
    /\ lastCall'.method = "handleShellCommand"
    /\ lastCall'.body

\* The invocation is malformed: a wrong argument count, an unknown subcommand, or
\* a word that is not a number in the place of the UID or of the NAME.
Malformed(call) ==
    \/ WrongCount(call.args)
    \/ call.args[1] \notin Subcommands
    \/ \E s \in Range(UidArgument(call.args)) \cup Range(NameArgument(call.args)) : ~Numeric(s)

\* Nothing was done.
NoEffect ==
    /\ lastCall'.effect = "none"
    /\ lastCall'.keys = {}
    /\ lastCall'.dump = {}
    /\ UNCHANGED servedState

\* The usage block was printed last and the generic failure returned.
UsageAndFailure ==
    /\ lastCall'.out # <<>>
    /\ lastCall'.out[Len(lastCall'.out)] = Help
    /\ lastCall'.status = "UNKNOWN_ERROR"

C33_OneShellSubscriber ==
    /\ shellInstances <= 1
    /\ (mShellSubscriber = "null") <=> (shellInstances = 0)
    /\ \A t \in Threads :
           /\ thr[t].pc = "start" => shellInstances = 1
           /\ usedSubscriber[t] # 0 => usedSubscriber[t] = shellInstances
    /\ \A t, u \in Threads :
           (usedSubscriber[t] # 0 /\ usedSubscriber[u] # 0)
               => usedSubscriber[t] = usedSubscriber[u]

\* A data-subscribe and an addSubscription were in initShellSubscriber together,
\* one waiting for the mutex while the other had just constructed the instance.
C33_Witness ==
    \E t, u \in Threads :
        /\ thr[t].pc = "lock"
        /\ thr[u].pc = "unlock"
        /\ thr[t].op # thr[u].op
        /\ mShellSubscriberMutex = u
        /\ shellInstances = 1
        /\ usedSubscriber = [w \in Threads |-> 0]

\* Everything but the status of the last statsCompanionReady.
readyFrame == <<bootVars, logVars, facadeVars, subscriberVars, thr, destroyed, hasProcessor,
                companionLive, companionsStarted, linked, deathPending, handle, readyPc,
                readyRef, diedPc, activeConfigsProto, metadataList, parsedActiveConfigs,
                activeConfigs, metadataState, registered, changed, restarts, diedTrace,
                snapshot, appliedFrom, overlap, lastNotif, updateCalls, companionCalls,
                alarmCalls, lastCallback>>

\* C34: statsCompanionReady returns the null-dependency error exactly when it
\* was let in and the companion service cannot be obtained, and then changes
\* nothing: no death link is registered and the handles of the puller manager
\* and of both alarm monitors keep their values. It goes on to link and to
\* store handles only with a companion it has obtained.
C34_NullCompanionChangesNothing ==
    /\ [][(readyPc = 0 /\ readySt' # readySt /\ readySt' = "EX_NULL_POINTER")
          => /\ getStatsCompanionService = 0
             /\ linked' = linked
             /\ handle' = handle
             /\ UNCHANGED readyFrame]_vars
    /\ [][(readyPc = 0 /\ readySt' # readySt /\ getStatsCompanionService = 0)
          => /\ readySt' \in {"EX_NULL_POINTER", "EX_SECURITY"}
             /\ UNCHANGED readyFrame]_vars
    /\ [][(readyPc = 0 /\ readyPc' # 0)
          => /\ getStatsCompanionService # 0
             /\ readyRef' = getStatsCompanionService]_vars
    /\ [](readySt = "EX_NULL_POINTER" => readyPc = 0)

\* The companion had died and its death was not yet delivered: statsCompanionReady
\* returned the null-dependency error and the handles kept the dead companion.
C34_Witness ==
    /\ readySt = "EX_NULL_POINTER"
    /\ companionLive = 0
    /\ deathPending # {}
    /\ linked = {}
    /\ \A h \in Holders : handle[h] \in deathPending

\* The step served an addConfiguration that passed the entry check.
AddConfigurationStep ==
    /\ lastCall' # lastCall
    /\ lastCall'.method = "addConfiguration"
    /\ lastCall'.body

\* The configuration was handed to the ConfigManager under the key.
Installed(config) ==
    /\ lastCall'.status = "ok"
    /\ lastCall'.effect = "UpdateConfig"
    /\ lastCall'.config = config
    /\ \E uid \in lastCall'.declared, key \in ConfigIds :
           lastCall'.keys = {ConfigKey(uid, key)}
    /\ mConfigs' = mConfigs \cup lastCall'.keys

\* C35: addConfiguration with bytes that cannot be parsed returns an
\* illegal-argument error, does not call the ConfigManager and leaves the set of
\* configurations and everything else unchanged; with bytes that parse it
\* installs the parsed configuration under the key; with no bytes it skips
\* parsing and installs an empty configuration under the key.
C35_UnparsableConfigRejected ==
    [][AddConfigurationStep
       => CASE lastCall'.args = <<Word("malformed")>> ->
                   /\ lastCall'.status = "EX_ILLEGAL_ARGUMENT"
                   /\ lastCall'.effect = "none"
                   /\ lastCall'.keys = {}
                   /\ mConfigs' = mConfigs
                   /\ UNCHANGED servedState
            [] lastCall'.args = <<Word("valid")>> -> Installed("parsed")
            [] lastCall'.args = <<Word("empty")>> -> Installed("default")]_vars

\* Unparsable bytes were refused while a configuration with a report was
\* installed, and it is still there.
C35_Witness ==
    /\ lastCall.method = "addConfiguration"
    /\ lastCall.args = <<Word("malformed")>>
    /\ lastCall.status = "EX_ILLEGAL_ARGUMENT"
    /\ \E r \in reports : r.key \in mConfigs

\* The companion has died, and its death has requested termination, with a
\* positive delay and before the three preconditions were all satisfied.
DiedBeforeFired ==
    /\ mInitEventDelaySecs > 0
    /\ restarts > 0
    /\ mStatsdInitCompletedHandlerTerminationRequested
    /\ ~fired
    /\ satisfied # RequiredConditions

\* C36: the termination flag of the boot-completion handler, once set by the
\* death of the companion, informDeviceShutdown, Terminate or the destructor, is
\* never cleared. So, with a positive delay, once the companion has died before
\* the three preconditions were all satisfied, the engine is never told that
\* init has completed: not after a later statsCompanionReady, not after the
\* remaining preconditions are marked.
C36_TerminationFlagNeverCleared ==
    /\ [][mStatsdInitCompletedHandlerTerminationRequested
          => mStatsdInitCompletedHandlerTerminationRequested']_vars
    /\ [](DiedBeforeFired => [](processorInitCalls = 0))

\* The companion died before the preconditions were satisfied and a second one
\* became ready; then the trigger fired, and the handler was skipped.
C36_Witness ==
    /\ mInitEventDelaySecs > 0
    /\ restarts > 0
    /\ readySt = "ok"
    /\ companionLive # 0
    /\ \A h \in Holders : handle[h] = companionLive
    /\ snapshot.dead # companionLive
    /\ satisfied = RequiredConditions
    /\ fired
    /\ initPc = "skipped"
    /\ ~shutdownRequested
    /\ processorInitCalls = 0

\* ------------------------------------------------------------------ C37
AllEventIds == (1..MaxEvents) \cup {Sentinel}
Dispatched(e) == Count(e, engineLog) > 0 \/ Count(e, subscriberLog) > 0
ReaderLeaves ==
    /\ readerPc' = "exited"
    /\ event[1] \in discarded'
    /\ engineLog' = engineLog
    /\ subscriberLog' = subscriberLog

\* C37: an event the reader holds after waitPop while the stop flag is set, real
\* or sentinel, is discarded and the reader exits without calling the engine or
\* the subscriber; after the exit nothing more is dispatched, so what is left in
\* the queue stays undispatched; and an event still queued when the stop flag is
\* set (hence popped after it) is never dispatched, a discarded one neither.
C37_PoppedAfterStopDiscarded ==
    /\ [][(readerPc = "checkStop" /\ mIsStopRequested /\ readerPc' # readerPc) => ReaderLeaves]_vars
    /\ [][readerPc = "exited" =>
            /\ readerPc' = "exited"
            /\ engineLog' = engineLog
            /\ subscriberLog' = subscriberLog]_vars
    /\ \A e \in AllEventIds :
           [](((mIsStopRequested /\ e \in QueuedIds) \/ e \in discarded) => [](~Dispatched(e)))

\* C37 witness: with a subscriber active the reader dispatched an event, then
\* dropped a real event under the stop flag and left while the queue still held
\* an entry; neither was dispatched.
C37_Witness ==
    /\ readerPc = "exited"
    /\ mShellSubscriber # "null"
    /\ Len(subscriberLog) > 0
    /\ \E e \in discarded : e # Sentinel /\ ~Dispatched(e)
    /\ queue # <<>>
    /\ \A i \in 1..Len(queue) : ~Dispatched(queue[i])

\* ------------------------------------------------------------------ C38
UidDataRefused(t) ==
    /\ thr[t].pc = "idle"
    /\ thr'[t] # thr[t]
    /\ thr'[t] = Idle("EX_ILLEGAL_ARGUMENT")

MarkingUidMap(t) == thr[t].pc = "markComplete" /\ thr[t].op = "informAllUidData"

\* C38: a call of informAllUidData that returns the illegal-argument error leaves
\* the uid map, the trigger's satisfied set, its fired flag and the record of
\* markComplete calls unchanged; informAllUidData reaches markComplete only with
\* the uid map already updated from a parsed payload, and the uid-map-received
\* precondition is satisfied only when a parsed payload has updated the map.
C38_UnparsableUidDataMarksNothing ==
    /\ [][\A t \in Threads : UidDataRefused(t) =>
              /\ mUidMap' = mUidMap
              /\ satisfied' = satisfied
              /\ fired' = fired
              /\ marked' = marked
              /\ initPc' = initPc]_vars
    /\ [](\A t \in Threads : MarkingUidMap(t) => ParseFromFileDescriptor(mUidMap))
    /\ [](kUidMapReceivedTag \in satisfied => ParseFromFileDescriptor(mUidMap))

\* C38 witness: with the two other preconditions satisfied, informAllUidData was
\* refused for an unparsable payload; the uid map is still empty and the
\* completion has not fired.
C38_Witness ==
    /\ \E t \in Threads : thr[t] = Idle("EX_ILLEGAL_ARGUMENT")
    /\ satisfied = RequiredConditions \ {kUidMapReceivedTag}
    /\ satisfied # {}
    /\ ~fired
    /\ mUidMap = "empty"

\* ------------------------------------------------------------------ C39
GetDataFdStep ==
    /\ lastCall' # lastCall
    /\ lastCall'.method = "getDataFd"
    /\ lastCall'.body

ReadStep ==
    /\ lastCall' # lastCall
    /\ lastCall'.method \in {"getData", "getDataFd"}

\* C39: every admitted getDataFd, whether it succeeds or fails with illegal state
\* (report too big, descriptor not writable), asks the engine for the report of
\* its key with erase-data set and leaves the engine without a report for that
\* key; only the engine collecting again or a new configuration gives a key a
\* report, never a read; and a getData for a key without a report returns
\* nothing, so the data a getDataFd took is not returned again.
C39_GetDataFdAlwaysErases ==
    /\ [][GetDataFdStep
          => /\ lastCall'.status \in {"ok", "EX_ILLEGAL_STATE"}
             /\ lastCall'.dump # {}
             /\ \A d \in lastCall'.dump :
                    /\ d.eraseData
                    /\ d = getDataChecked(FirstConfig, AID_SYSTEM)
                    /\ \A r \in reports' : r.key # d.key
             /\ (ReportTooBig(DumpedReport) \/ lastCall'.args = Word("closed"))
                    => lastCall'.status = "EX_ILLEGAL_STATE" /\ lastCall'.out = <<>>]_vars
    /\ [][ReadStep => reports' \subseteq reports]_vars
    /\ [][(lastCall' # lastCall /\ lastCall'.method = "getData" /\ lastCall'.body)
          => \A d \in lastCall'.dump :
                 (\A r \in reports : r.key # d.key) => lastCall'.out = <<>>]_vars

\* C39 witness: getDataFd, given a descriptor that can be written, failed with
\* illegal state because the report was too big, and the engine no longer holds a
\* report for the configuration.
C39_Witness ==
    /\ lastCall.method = "getDataFd"
    /\ lastCall.body
    /\ lastCall.args = Word("open")
    /\ lastCall.status = "EX_ILLEGAL_STATE"
    /\ lastCall.dump # {}
    /\ \A d \in lastCall.dump : d.key \in mConfigs /\ ReportOf(d.key) = Empty

====
